---- MODULE Spec2Model ----
(***************************************************************************)
(* A model of schemer (src/schemer/__init__.py): Schema construction and   *)
(* self-verification, default application and instance validation.         *)
(*                                                                         *)
(* A Python object is a pair <<class, payload>>: x[1] names its class and   *)
(* x[2] is its content.  A dict's content is a function from its keys to   *)
(* values, a list's content is a sequence.                                 *)
(***************************************************************************)
EXTENDS Integers, Sequences, FiniteSets, TLC

VARIABLES schema, instance, errors, raised, order, pc,
          \* the calls validate made of validators and dynamic-type functions
          calls,
          \* what a default function that reads the time returns at this moment
          clock,
          \* a second document, defaulted against the same schema
          other,
          \* the top-level fields, of instance or of other, whose value is the
          \* very object the schema holds as the field's default
          aliased,
          \* the schema as Schema.__init__ left it
          constructed

vars == <<schema, instance, errors, raised, order, pc, calls, clock, other, aliased,
          constructed>>

(***************************************************************************)
(* Bounds of the model.                                                    *)
(***************************************************************************)
\* longest list that occurs as a value in a document
MaxListLen == 2
\* number of keys a document may carry that no schema declares
MaxExtraKeys == 1

(***************************************************************************)
(* Python values.                                                          *)
(***************************************************************************)
PyNone == <<"NoneType", "None">>
PyBool(b) == <<"bool", b>>
PyInt(n) == <<"int", n>>
PyFloat(s) == <<"float", s>>
PyStr(s) == <<"str", s>>
PyDict(f) == <<"dict", f>>
PyList(s) == <<"list", s>>
PyType(n) == <<"type", n>>
PyFunc(n) == <<"function", n>>
\* an object with __call__ that is no function, such as a functools.partial
PyCallable(n) == <<"callable", n>>

EmptyMap == [key \in {} |-> ""]
EmptyDict == PyDict(EmptyMap)

\* d[key] = value
Put(d, key, value) ==
    [x \in (DOMAIN d) \cup {key} |-> IF x = key THEN value ELSE d[x]]

\* class Array: a holder of contained_type
Array(contained_type) == <<"Array", contained_type>>

\* Mixed(*types): a class whose instance check accepts an instance of any of types
Mixed(types) == <<"Mixed", types>>

\* Schema.__init__ stores doc_spec, strict and validates
SchemaObj(doc_spec, strict, validates) ==
    <<"Schema", [doc_spec |-> doc_spec, strict |-> strict, validates |-> validates]>>

\* isinstance(x, type): classes, a Mixed(...) class included
IsType(x) == x[1] \in {"type", "Mixed"}
\* isinstance(x, types.FunctionType)
IsFunction(x) == x[1] = "function"
IsSchema(x) == x[1] = "Schema"
IsArray(x) == x[1] = "Array"
IsDict(x) == x[1] = "dict"
IsList(x) == x[1] = "list"
IsBool(x) == x[1] = "bool"
\* callable(x): functions, classes and objects with __call__
Callable(x) == x[1] \in {"function", "type", "Mixed", "callable"}

\* the instance check of a Mixed class: any candidate accepts the value
MixedInstanceCheck(value, types) ==
    \E i \in 1 .. Len(types) : LET t == types[i] IN
        \/ t[2] = "int" /\ value[1] \in {"int", "bool"}
        \/ t[2] = "basestring" /\ value[1] = "str"
        \/ t[2] = "float" /\ value[1] = "float"
        \/ t[2] = "dict" /\ value[1] = "dict"
        \/ t[2] = "list" /\ value[1] = "list"

\* isinstance(value, t) for a class t
IsInstance(value, t) ==
    IF t[1] = "Mixed" THEN MixedInstanceCheck(value, t[2])
    ELSE \/ t[2] = "int" /\ value[1] \in {"int", "bool"}
         \/ t[2] = "basestring" /\ value[1] = "str"
         \/ t[2] = "float" /\ value[1] = "float"
         \/ t[2] = "dict" /\ value[1] = "dict"
         \/ t[2] = "list" /\ value[1] = "list"
         \/ t[2] = "bool" /\ value[1] = "bool"
         \/ t[2] = "datetime" /\ value[1] = "datetime"


\* dict.get(key, default)
Get(d, key, dflt) == IF key \in DOMAIN d THEN d[key] ELSE dflt

\* the truth value Python gives an object in `if x:`
Truthy(x) ==
    CASE x[1] = "bool" -> x[2]
      [] x[1] = "NoneType" -> FALSE
      [] x[1] = "int" -> x[2] # 0
      [] x[1] = "str" -> x[2] # ""
      [] x[1] = "dict" -> DOMAIN x[2] # {}
      [] x[1] = "list" -> Len(x[2]) > 0
      [] OTHER -> TRUE

(***************************************************************************)
(* Exceptions and the result of a traversal step: the error accumulator    *)
(* after the step and the exception that left it, if any.                  *)
(***************************************************************************)
NoExc == [kind |-> "none", path |-> ""]
\* SchemaFormatException(message, path)
SchemaFormatException(path) == [kind |-> "SchemaFormatException", path |-> path]
\* any other exception class; it carries no path
OtherException(kind) == [kind |-> kind, path |-> ""]
(* A result also lists the calls the step made, in the order it made them. *)
Ok(errs) == [errors |-> errs, exc |-> NoExc, calls |-> <<>>]
Raise(errs, exc) == [errors |-> errs, exc |-> exc, calls |-> <<>>]
\* fn(value), made while at path
Call(fn, path, value) == <<fn, path, value>>
\* the result r of a step that came after the calls made before it
After(made, r) == [r EXCEPT !.calls = made \o r.calls]
\* the outcome of a call: the value returned, or the class of the exception raised
Returns(x) == [ret |-> x, exc |-> "none"]
Raises(kind) == [ret |-> PyNone, exc |-> kind]

\* Schema._append_path: a falsy prefix ('' or None) leaves the field alone
AppendPathAlwaysDotted(prefix, field) == prefix \o "." \o field
AppendPath(prefix, field) ==
    IF prefix # "" THEN prefix \o "." \o field ELSE field

\* the order in which a dict with these keys is iterated: the drawn order of
\* the top-level names, then the names of the sample's nested schemas
NestedKeys ==
    <<"first", "last", "first_name", "last_name", "birth_year", "birth_month",
      "birth_day", "url", "name", "commenter", "email", "comment", "votes">>
KeysInOrder(d) == SelectSeq(order \o NestedKeys, LAMBDA f : f \in DOMAIN d)

(***************************************************************************)
(* The sample schemas and functions of tests/schemer/sample.py.            *)
(***************************************************************************)
basestring == PyType("basestring")
int == PyType("int")
float == PyType("float")
True == PyBool(TRUE)
False == PyBool(FALSE)
NoValidates == PyList(<<>>)

name_schema ==
    SchemaObj([first |-> PyDict([type |-> basestring, required |-> True]),
               last |-> PyDict([type |-> basestring, required |-> True])],
              TRUE, NoValidates)

about_schema ==
    SchemaObj([first_name |-> PyDict([type |-> basestring, required |-> True]),
               last_name |-> PyDict([type |-> basestring, required |-> True]),
               birth_year |-> PyDict([type |-> int, required |-> True]),
               birth_month |-> PyDict([type |-> int, required |-> True]),
               birth_day |-> PyDict([type |-> int, required |-> True])],
              TRUE, NoValidates)

website_schema ==
    SchemaObj([url |-> PyDict([type |-> basestring, required |-> True]),
               name |-> PyDict([type |-> basestring, required |-> True])],
              TRUE, NoValidates)

comment_schema ==
    SchemaObj([commenter |-> PyDict([type |-> name_schema, required |-> True]),
               email |-> PyDict([type |-> basestring, required |-> False]),
               comment |-> PyDict([type |-> basestring, required |-> True]),
               votes |-> PyDict([type |-> int, default |-> PyInt(0)])],
              TRUE, NoValidates)

\* a dynamic-type function called with a value
CallType(fn, value) ==
    CASE fn[2] = "get_author_schema" ->
            \* document.get(...): only a dict has get
            IF ~IsDict(value) THEN Raises("AttributeError")
            ELSE IF Truthy(Get(value[2], "first_name", PyNone))
                 THEN Returns(about_schema)
                 ELSE Returns(name_schema)
      [] fn[2] = "get_website_schema" ->
            IF IsList(value) THEN Returns(Array(website_schema))
            ELSE IF IsDict(value) THEN Returns(website_schema)
            ELSE Returns(basestring)
      [] fn[2] = "editors_type" ->
            IF IsDict(value) THEN Returns(name_schema) ELSE Returns(basestring)
      \* a function of the editors' kind whose schema carries a default
      [] fn[2] = "comments_type" ->
            IF IsDict(value) THEN Returns(comment_schema) ELSE Returns(basestring)
      [] fn[2] = "returns_instance" -> Returns(PyStr("wrong"))
      [] OTHER -> Raises("TypeError")

\* len(value), for the values that have one
HasLen(value) == value[1] \in {"str", "list", "dict"}
PyLen(value) ==
    IF value[1] = "dict" THEN Cardinality(DOMAIN value[2]) ELSE Len(value[2])

\* a validator called with a value: the message returned ("" for None), or
\* the class of the exception raised
CallValidator(fn, value) ==
    CASE fn[2] = "one_of" ->
            IF value \notin {PyStr("cooking"), PyStr("politics")}
            THEN Returns("value is not in the list") ELSE Returns("")
      [] fn[2] = "length" ->
            IF ~HasLen(value) THEN Raises("TypeError")
            ELSE IF PyLen(value) < 1
                 THEN Returns("value does not have a length of at least 1")
                 ELSE Returns("")
      [] fn[2] = "gte" ->
            IF value[1] = "int" /\ value[2] < 1
            THEN Returns("value is not greater than or equal to 1") ELSE Returns("")
      [] fn[2] = "lte" ->
            IF value[1] = "int" /\ value[2] > 10
            THEN Returns("value is not less than or equal to 10") ELSE Returns("")
      [] fn[2] = "lt" ->
            IF value[1] = "int" /\ value[2] >= 5
            THEN Returns("value is not less than 5") ELSE Returns("")
      \* validators of a whole document: they read it with document.get
      [] fn[2] = "a_before_b" ->
            IF ~IsDict(value) THEN Raises("AttributeError")
            ELSE LET a == Get(value[2], "a", PyNone)
                     b == Get(value[2], "b", PyNone)
                 IN IF a[1] = "int" /\ b[1] = "int" /\ a[2] > b[2]
                    THEN Returns("a is after b") ELSE Returns("")
      [] fn[2] = "small_a" ->
            IF ~IsDict(value) THEN Raises("AttributeError")
            ELSE LET a == Get(value[2], "a", PyNone)
                 IN IF a[1] = "int" /\ a[2] > 10
                    THEN Returns("a is too large") ELSE Returns("")
      [] OTHER -> Raises("TypeError")

(***************************************************************************)
(* Instance validation.                                                    *)
(***************************************************************************)
\* the loop of _apply_validations over a list of validators, from the i-th on
RECURSIVE ApplyEach(_, _, _, _, _)
RECURSIVE Applied(_, _, _, _, _, _)
RECURSIVE ApplyEachFirstWins(_, _, _, _, _)
ApplyEachFirstWins(errs, path, validations, value, i) ==
    IF i > Len(validations) THEN Ok(errs)
    ELSE LET out == CallValidator(validations[i], value)
             made == <<Call(validations[i], path, value)>>
         IN
         IF out.exc # "none" THEN After(made, Raise(errs, OtherException(out.exc)))
         ELSE After(made,
                    ApplyEachFirstWins(IF out.ret # "" /\ path \notin DOMAIN errs
                                       THEN Put(errs, path, out.ret) ELSE errs,
                                       path, validations, value, i + 1))
ApplyEach(errs, path, validations, value, i) ==
    IF i > Len(validations) THEN Ok(errs)
    ELSE After(<<Call(validations[i], path, value)>>,
               Applied(errs, path, validations, value, i,
                       CallValidator(validations[i], value)))

\* apply(fn) of _apply_validations, fn(value) having come out as out, and
\* the validators after it
Applied(errs, path, validations, value, i, out) ==
    IF out.exc # "none" THEN Raise(errs, OtherException(out.exc))
    ELSE ApplyEach(IF out.ret # "" THEN Put(errs, path, out.ret) ELSE errs,
                   path, validations, value, i + 1)

\* Schema._apply_validations: a list of validators or a single one
ApplyValidationsFirstOnly(errs, path, validations, value) ==
    IF IsList(validations)
    THEN ApplyEach(errs, path,
                   SelectSeq(validations[2], LAMBDA fn : fn = Head(validations[2])),
                   value, 1)
    ELSE ApplyEach(errs, path, <<validations>>, value, 1)
ApplyValidations(errs, path, validations, value) ==
    IF IsList(validations) THEN ApplyEach(errs, path, validations[2], value, 1)
    ELSE ApplyEach(errs, path, <<validations>>, value, 1)

\* the end of _validate_value: the field's validators, if it declares any
FieldValidations(field_spec, path, errs, value) ==
    LET validations == Get(field_spec, "validates", PyNone) IN
    IF validations[1] = "NoneType" THEN Ok(errs)
    ELSE ApplyValidations(errs, path, validations, value)

\* the presence check of _validate_instance: spec.get('required', False)
IsRequiredDefaultTrue(spec) == Truthy(Get(spec, "required", True))
IsRequired(spec) == Truthy(Get(spec, "required", False))

\* the null check of _validate_value: is a None value an error
NullRejectedIgnoresRequired(field_spec) ==
    ~Truthy(Get(field_spec, "nullable", True))
NullRejected(field_spec) ==
    ~Truthy(Get(field_spec, "nullable",
                PyBool(~Truthy(Get(field_spec, "required", False)))))

\* the strict pass of _validate_instance: every undeclared key is an error
StrictCheckAlways(S, inst, errs, path_prefix) ==
    LET unexpected == {AppendPath(path_prefix, field) :
                          field \in (DOMAIN inst[2]) \ (DOMAIN S[2].doc_spec)}
    IN [p \in (DOMAIN errs) \cup unexpected |->
           IF p \in unexpected
           THEN "Unexpected document field not present in schema"
           ELSE errs[p]]
StrictCheck(S, inst, errs, path_prefix) ==
    IF S[2].strict
    THEN LET unexpected == {AppendPath(path_prefix, field) :
                               field \in (DOMAIN inst[2]) \ (DOMAIN S[2].doc_spec)}
         IN [p \in (DOMAIN errs) \cup unexpected |->
                IF p \in unexpected
                THEN "Unexpected document field not present in schema"
                ELSE errs[p]]
    ELSE errs

\* the message of a type mismatch: the class is formatted into it
TypeMessage(field_type) ==
    "Field should be of type "
        \o (IF field_type[1] = "Mixed" THEN "Mixed" ELSE field_type[2])

\* the type resolution of _validate_value: a dynamic-type function is called
\* with the value; its exception, or a result that is no type, Schema or
\* Array, becomes a SchemaFormatException
ResolveTypeUnguarded(declared, value) ==
    IF ~IsFunction(declared) THEN Returns(declared)
    ELSE LET out == CallType(declared, value) IN
         IF out.exc # "none" THEN out
         ELSE IF ~(IsType(out.ret) \/ IsSchema(out.ret) \/ IsArray(out.ret))
         THEN Raises("SchemaFormatException")
         ELSE out
ResolveType(declared, value) ==
    IF ~IsFunction(declared) THEN Returns(declared)
    ELSE LET out == CallType(declared, value) IN
         IF out.exc # "none" THEN Raises("SchemaFormatException")
         ELSE IF ~(IsType(out.ret) \/ IsSchema(out.ret) \/ IsArray(out.ret))
         THEN Raises("SchemaFormatException")
         ELSE out

\* the last type check of _validate_value: not isinstance(value, field_type)
TypeMismatchExactClass(value, field_type) ==
    field_type[1] = "Mixed" \/ ~IsInstance(value, field_type)
TypeMismatch(value, field_type) == ~IsInstance(value, field_type)

RECURSIVE ValidateInstance(_, _, _, _)
RECURSIVE ValidateValue(_, _, _, _)
RECURSIVE ValidateItems(_, _, _, _, _)
RECURSIVE ValidateResolved(_, _, _, _, _)
RECURSIVE ValidateItem(_, _, _, _, _, _)
RECURSIVE ValidateFields(_, _, _, _, _)
RECURSIVE Validated(_, _, _, _)
RECURSIVE Visited(_, _, _, _, _)
RECURSIVE ItemsValidated(_, _, _, _)
RECURSIVE ItemValidated(_, _, _, _, _)

\* _validate_instance after the loop over the declared fields, which came out as r: the strict check
Checked(S, inst, path_prefix, r) ==
    IF r.exc # NoExc THEN r
    ELSE After(r.calls, Ok(StrictCheck(S, inst, r.errors, path_prefix)))

\* Schema._validate_instance
ValidateInstance(S, inst, errs, path_prefix) ==
    IF ~IsDict(inst)
    THEN Ok(Put(errs, path_prefix,
                "Expected instance of dict to validate against schema."))
    ELSE Validated(S, inst, path_prefix,
                   ApplyValidations(errs, path_prefix, S[2].validates, inst))

\* _validate_instance after the schema-level validators, which came out as r:
\* the loop over the declared fields
Validated(S, inst, path_prefix, r) ==
    IF r.exc # NoExc THEN r
    ELSE After(r.calls,
               Checked(S, inst, path_prefix,
                       ValidateFields(S, inst, r.errors, path_prefix,
                                      KeysInOrder(S[2].doc_spec))))

\* the loop of _validate_instance over the declared fields still to visit
RECURSIVE ValidateFieldsStopAtError(_, _, _, _, _)
ValidateFieldsStopAtError(S, inst, errs, path_prefix, fields) ==
    IF fields = <<>> THEN Ok(errs)
    ELSE LET field == Head(fields)
             spec == S[2].doc_spec[field][2]
             path == AppendPath(path_prefix, field)
             r == IF field \in DOMAIN inst[2]
                  THEN ValidateValue(inst[2][field], spec, path, errs)
                  ELSE IF IsRequired(spec)
                       THEN Ok(Put(errs, path, path \o " is required."))
                       ELSE Ok(errs)
         IN IF r.exc # NoExc \/ r.errors # errs THEN r
            ELSE After(r.calls,
                       ValidateFieldsStopAtError(S, inst, r.errors, path_prefix,
                                                 Tail(fields)))
ValidateFields(S, inst, errs, path_prefix, fields) ==
    IF fields = <<>> THEN Ok(errs)
    ELSE LET field == Head(fields)
             spec == S[2].doc_spec[field][2]
             path == AppendPath(path_prefix, field)
         IN Visited(S, inst, path_prefix, fields,
                    IF field \in DOMAIN inst[2]
                    THEN ValidateValue(inst[2][field], spec, path, errs)
                    ELSE IF IsRequired(spec)
                         THEN Ok(Put(errs, path, path \o " is required."))
                         ELSE Ok(errs))

\* one round of that loop having come out as r, the rounds after it
Visited(S, inst, path_prefix, fields, r) ==
    IF r.exc # NoExc THEN r
    ELSE After(r.calls, ValidateFields(S, inst, r.errors, path_prefix, Tail(fields)))

\* Schema._validate_value
ValidateValue(value, field_spec, path, errs) ==
    IF value[1] = "NoneType"
    THEN IF NullRejected(field_spec)
         THEN Ok(Put(errs, path, path \o " is not nullable."))
         ELSE Ok(errs)
    ELSE After(IF IsFunction(field_spec["type"])
               THEN <<Call(field_spec["type"], path, value)>> ELSE <<>>,
               ValidateResolved(value, field_spec, path, errs,
                                ResolveType(field_spec["type"], value)))

\* _validate_value once the field's type is resolved
RECURSIVE ValidateResolvedNoReturn(_, _, _, _, _)
ValidateResolvedNoReturn(value, field_spec, path, errs, resolved) ==
    LET field_type == resolved.ret IN
    IF resolved.exc # "none"
    THEN Raise(errs, [kind |-> resolved.exc, path |-> path])
    ELSE IF IsSchema(field_type)
    THEN IF IsDict(value) THEN ValidateInstance(field_type, value, errs, path)
         ELSE Ok(Put(errs, path, path \o " should be an embedded document"))
    ELSE IF IsArray(field_type)
    THEN IF IsList(value)
         THEN ItemsValidated(value, field_spec, path,
                             ValidateItems(field_type, value, path, errs, 1))
         ELSE FieldValidations(field_spec, path,
                               Put(errs, path, path \o " should be an embedded array"),
                               value)
    ELSE IF TypeMismatch(value, field_type)
    THEN Ok(Put(errs, path, TypeMessage(field_type)))
    ELSE FieldValidations(field_spec, path, errs, value)
ValidateResolved(value, field_spec, path, errs, resolved) ==
    LET field_type == resolved.ret IN
    IF resolved.exc # "none"
    THEN Raise(errs, [kind |-> resolved.exc, path |-> path])
    ELSE IF IsSchema(field_type)
    THEN IF IsDict(value) THEN ValidateInstance(field_type, value, errs, path)
         ELSE Ok(Put(errs, path, path \o " should be an embedded document"))
    ELSE IF IsArray(field_type)
    THEN IF IsList(value)
         THEN ItemsValidated(value, field_spec, path,
                             ValidateItems(field_type, value, path, errs, 1))
         ELSE Ok(Put(errs, path, path \o " should be an embedded array"))
    ELSE IF TypeMismatch(value, field_type)
    THEN Ok(Put(errs, path, TypeMessage(field_type)))
    ELSE FieldValidations(field_spec, path, errs, value)

\* _validate_value after the loop over the items, which came out as r: the
\* field's validators
ItemsValidated(value, field_spec, path, r) ==
    IF r.exc # NoExc THEN r
    ELSE After(r.calls, FieldValidations(field_spec, path, r.errors, value))

\* the loop of _validate_value over the items of a list, from the i-th on
\* (Python counts the items from 0)
ValidateItems(field_type, value, path, errs, i) ==
    IF i > Len(value[2]) THEN Ok(errs)
    \* the function is called before the item's path is made
    ELSE After(IF IsFunction(field_type[2])
               THEN <<Call(field_type[2], path, value[2][i])>> ELSE <<>>,
               ValidateItem(field_type, value, path, errs, i,
                            IF IsFunction(field_type[2])
                            THEN CallType(field_type[2], value[2][i])
                            ELSE Returns(field_type[2])))

\* one round of that loop, the contained type being what resolved holds, and
\* the rounds after it
ValidateItem(field_type, value, path, errs, i, resolved) ==
    LET item == value[2][i]
        contained_type == resolved.ret
        instance_path == AppendPath(path, ToString(i - 1))
    IN
    \* the function's own exception leaves validate as it is
    IF resolved.exc # "none" THEN Raise(errs, OtherException(resolved.exc))
    ELSE ItemValidated(field_type, value, path, i,
                       IF IsSchema(contained_type)
                       THEN ValidateInstance(contained_type, item, errs, instance_path)
                       ELSE IF ~IsType(contained_type)
                       \* isinstance() with a second argument that is no class
                       THEN Raise(errs, OtherException("TypeError"))
                       ELSE IF ~IsInstance(item, contained_type)
                       THEN Ok(Put(errs, instance_path,
                                   "Array item at " \o instance_path
                                       \o " is of incorrect type"))
                       ELSE Ok(errs))

\* the check of one item having come out as r, the rounds after it
ItemValidated(field_type, value, path, i, r) ==
    IF r.exc # NoExc THEN r
    ELSE After(r.calls, ValidateItems(field_type, value, path, r.errors, i + 1))

\* ValidationException(errors)
ValidationException(errs) ==
    [kind |-> "ValidationException", path |-> "", errors |-> errs]
\* an exception that carries no error set, as the variable raised holds it
Raised(exc) == [kind |-> exc.kind, path |-> exc.path, errors |-> EmptyMap]
NotRaised == Raised(NoExc)

\* Schema.validate: what the call raises, given the traversal's result
ValidateOutcomeOffByOne(r) ==
    IF r.exc # NoExc THEN Raised(r.exc)
    ELSE IF Cardinality(DOMAIN r.errors) > 1 THEN ValidationException(r.errors)
    ELSE NotRaised
ValidateOutcome(r) ==
    IF r.exc # NoExc THEN Raised(r.exc)
    ELSE IF Cardinality(DOMAIN r.errors) > 0 THEN ValidationException(r.errors)
    ELSE NotRaised

(***************************************************************************)
(* Schema construction and self-verification.                              *)
(***************************************************************************)
\* len(getargspec(f).args) of the functions of the model
NumArgs(fn) == IF fn[2] \in {"bad_validator", "stubnow"} THEN 0 ELSE 1

\* Schema._verify_validator
VerifyValidator(validator, path) ==
    IF ~Callable(validator) THEN SchemaFormatException(path)
    \* getargspec() of a callable that is no function
    ELSE IF ~IsFunction(validator) THEN OtherException("TypeError")
    ELSE IF NumArgs(validator) # 1 THEN SchemaFormatException(path)
    ELSE NoExc

\* the loop of _verify_validates over a list of validators, from the i-th on
RECURSIVE VerifyEachValidator(_, _, _)
VerifyEachValidator(validates, path, i) ==
    IF i > Len(validates) THEN NoExc
    ELSE LET e == VerifyValidator(validates[i], path) IN
         IF e # NoExc THEN e ELSE VerifyEachValidator(validates, path, i + 1)

\* Schema._verify_validates
VerifyValidates(spec, path) ==
    LET validates == spec["validates"] IN
    IF IsList(validates) THEN VerifyEachValidator(validates[2], path, 1)
    ELSE VerifyValidator(validates, path)

\* Schema._valid_schema_default
ValidSchemaDefault(value) == IsDict(value)

\* the loop of _verify_default over the items of a list default, from the i-th on
RECURSIVE VerifyDefaultItems(_, _, _, _)
VerifyDefaultItems(contained_type, default, path, i) ==
    IF i > Len(default) THEN NoExc
    ELSE LET item == default[i]
             e == IF IsSchema(contained_type)
                  THEN IF ~ValidSchemaDefault(item)
                       THEN SchemaFormatException(path) ELSE NoExc
                  \* isinstance() with a second argument that is no class
                  ELSE IF ~IsType(contained_type) THEN OtherException("TypeError")
                  ELSE IF ~IsInstance(item, contained_type)
                       THEN SchemaFormatException(path) ELSE NoExc
         IN IF e # NoExc THEN e
            ELSE VerifyDefaultItems(contained_type, default, path, i + 1)

\* Schema._verify_default
VerifyDefault(spec, path) ==
    LET field_type == spec["type"]
        default == spec["default"]
    IN IF Callable(default) THEN NoExc
       ELSE IF IsArray(field_type)
       THEN IF ~IsList(default) THEN SchemaFormatException(path)
            ELSE VerifyDefaultItems(field_type[2], default[2], path, 1)
       ELSE IF IsSchema(field_type)
       THEN IF ~ValidSchemaDefault(default)
            THEN SchemaFormatException(path) ELSE NoExc
       \* isinstance() with a second argument that is no class
       ELSE IF ~IsType(field_type) THEN OtherException("TypeError")
       ELSE IF ~IsInstance(default, field_type)
            THEN SchemaFormatException(path) ELSE NoExc

\* Schema._verify_type
VerifyType(spec, path) ==
    LET field_type == spec["type"] IN
    IF IsSchema(field_type)
    THEN IF ~((DOMAIN spec) \subseteq {"type", "required", "nullable", "default"})
         THEN SchemaFormatException(path) ELSE NoExc
    ELSE IF IsArray(field_type)
    THEN IF ~(IsType(field_type[2]) \/ IsSchema(field_type[2])
              \/ IsArray(field_type[2]) \/ IsFunction(field_type[2]))
         THEN SchemaFormatException(path) ELSE NoExc
    ELSE IF ~IsType(field_type) /\ ~IsFunction(field_type)
         THEN SchemaFormatException(path) ELSE NoExc

\* Schema._verify_field_spec
VerifyFieldSpec(spec, path) ==
    IF "required" \in DOMAIN spec /\ ~IsBool(spec["required"])
    THEN SchemaFormatException(path)
    ELSE IF "nullable" \in DOMAIN spec /\ ~IsBool(spec["nullable"])
    THEN SchemaFormatException(path)
    ELSE IF "type" \notin DOMAIN spec THEN SchemaFormatException(path)
    ELSE IF VerifyType(spec, path) # NoExc THEN VerifyType(spec, path)
    ELSE IF "validates" \in DOMAIN spec /\ VerifyValidates(spec, path) # NoExc
    THEN VerifyValidates(spec, path)
    ELSE IF "default" \in DOMAIN spec /\ VerifyDefault(spec, path) # NoExc
    THEN VerifyDefault(spec, path)
    ELSE IF ~((DOMAIN spec) \subseteq
                {"type", "required", "validates", "default", "nullable"})
    THEN SchemaFormatException(path)
    ELSE NoExc

\* Schema._verify: the loop over the fields still to visit (path_prefix is None)
RECURSIVE VerifyFields(_, _)
VerifyFields(doc_spec, fields) ==
    IF fields = <<>> THEN NoExc
    ELSE LET field == Head(fields)
             spec == doc_spec[field]
             path == AppendPath("", field)
             e == IF IsDict(spec) THEN VerifyFieldSpec(spec[2], path)
                  ELSE SchemaFormatException(path)
         IN IF e # NoExc THEN e ELSE VerifyFields(doc_spec, Tail(fields))

Verify(doc_spec) == VerifyFields(doc_spec, KeysInOrder(doc_spec))

(***************************************************************************)
(* Default application.  apply_defaults changes its instance in place; a   *)
(* literal default is stored in the instance as the very object the spec   *)
(* holds, so what the recursion then writes into it is written into the    *)
(* spec's default as well.  The result is the instance and the schema      *)
(* after the call and the exception that left it, if any.                  *)
(***************************************************************************)
datetime(s) == <<"datetime", s>>
\* the times the clock may show
MaxClock == 2

\* default(): a default that is callable, called
CallDefault(default) ==
    CASE default[2] = "stubnow" -> Returns(datetime(clock))
      [] default[2] = "dict" -> Returns(EmptyDict)
      [] default[2] = "list" -> Returns(PyList(<<>>))
      [] default[2] = "int" -> Returns(PyInt(0))
      [] OTHER -> Raises("TypeError")

\* `field in instance`: a key of a dict, an item of a list, a part of a
\* string (the strings of the model hold a field's name only by being it);
\* anything else is not iterable
ContainsNoKey(inst, field) ==
    CASE inst[1] = "dict" -> Returns(FALSE)
      [] inst[1] = "list" ->
            Returns(\E i \in 1 .. Len(inst[2]) : inst[2][i] = PyStr(field))
      [] inst[1] = "str" -> Returns(inst[2] = field)
      [] OTHER -> Raises("TypeError")
Contains(inst, field) ==
    CASE inst[1] = "dict" -> Returns(field \in DOMAIN inst[2])
      [] inst[1] = "list" ->
            Returns(\E i \in 1 .. Len(inst[2]) : inst[2][i] = PyStr(field))
      [] inst[1] = "str" -> Returns(inst[2] = field)
      [] OTHER -> Raises("TypeError")

Done(inst, S) == [instance |-> inst, schema |-> S, exc |-> NoExc]
Failed(inst, S, kind) == [instance |-> inst, schema |-> S, exc |-> OtherException(kind)]

\* S with the spec of field changed at key
WithSpec(S, field, key, value) ==
    SchemaObj([f \in DOMAIN S[2].doc_spec |->
                  IF f = field THEN PyDict(Put(S[2].doc_spec[f][2], key, value))
                  ELSE S[2].doc_spec[f]],
              S[2].strict, S[2].validates)

RECURSIVE ApplyDefaultsFields(_, _, _)
RECURSIVE ApplyDefaultsItems(_, _, _)
RECURSIVE ItemDefaulted(_, _, _)
RECURSIVE FillField(_, _, _, _)
RECURSIVE Filled(_, _, _, _)
RECURSIVE Recurse(_, _, _, _)
RECURSIVE Recursed(_, _, _, _, _)

\* Schema.apply_defaults
ApplyDefaults(S, inst) == ApplyDefaultsFields(S, inst, KeysInOrder(S[2].doc_spec))

\* the loop over the items of a list value, from the i-th on: the result is
\* the list and the contained schema after it
ApplyDefaultsItems(contained, value, i) ==
    IF i > Len(value[2]) THEN Done(value, contained)
    ELSE ItemDefaulted(value, i, ApplyDefaults(contained, value[2][i]))

\* one round of that loop, the call on the item having come out as r, and
\* the rounds after it
ItemDefaulted(value, i, r) ==
    LET after == PyList([value[2] EXCEPT ![i] = r.instance]) IN
    IF r.exc # NoExc THEN [instance |-> after, schema |-> r.schema, exc |-> r.exc]
    ELSE ApplyDefaultsItems(r.schema, after, i + 1)

\* the loop of apply_defaults over the declared fields still to visit
ApplyDefaultsFields(S, inst, fields) ==
    IF fields = <<>> THEN Done(inst, S)
    ELSE FillField(S, inst, fields, Contains(inst, Head(fields)))

\* `if field not in instance`, the test having come out as absent: the
\* default, called if it is callable
FillField(S, inst, fields, absent) ==
    LET spec == S[2].doc_spec[Head(fields)][2] IN
    IF absent.exc # "none" THEN Failed(inst, S, absent.exc)
    ELSE IF ~absent.ret /\ "default" \in DOMAIN spec
    THEN Filled(S, inst, fields,
                IF Callable(spec["default"]) THEN CallDefault(spec["default"])
                ELSE Returns(spec["default"]))
    ELSE Recurse(S, inst, fields, FALSE)

\* instance[field] = ..., the default having come out as made
Filled(S, inst, fields, made) ==
    IF made.exc # "none" THEN Failed(inst, S, made.exc)
    \* instance[field] = ... on an object without item assignment
    ELSE IF ~IsDict(inst) THEN Failed(inst, S, "TypeError")
    \* the stored value of a literal default is the spec's own default object
    ELSE Recurse(S, PyDict(Put(inst[2], Head(fields), made.ret)), fields,
                 ~Callable(S[2].doc_spec[Head(fields)][2]["default"]))

\* `if field in instance`: the recursion into the value now present; shared
\* tells that the value is the spec's own default object
Recurse(S, inst1, fields, shared) ==
    LET field == Head(fields)
        field_type == S[2].doc_spec[field][2]["type"]
    IN
    IF ~Contains(inst1, field).ret THEN ApplyDefaultsFields(S, inst1, Tail(fields))
    \* instance[field] of a string or a list
    ELSE IF ~IsDict(inst1) THEN Failed(inst1, S, "TypeError")
    ELSE Recursed(S, inst1, fields, shared,
                  IF IsSchema(field_type) /\ IsDict(inst1[2][field])
                  THEN ApplyDefaults(field_type, inst1[2][field])
                  ELSE IF IsArray(field_type) /\ IsSchema(field_type[2])
                          /\ IsList(inst1[2][field])
                  THEN ApplyDefaultsItems(field_type[2], inst1[2][field], 1)
                  ELSE Done(inst1[2][field], PyNone))

\* the recursion having come out as r: what it wrote is written into the
\* value, into the nested schema and, if shared, into the spec's default
Recursed(S, inst1, fields, shared, r) ==
    LET field == Head(fields)
        field_type == S[2].doc_spec[field][2]["type"]
        inst2 == PyDict(Put(inst1[2], field, r.instance))
        S1 == IF r.schema[1] = "NoneType" THEN S
              ELSE WithSpec(S, field, "type",
                            IF IsArray(field_type) THEN Array(r.schema) ELSE r.schema)
        S2 == IF shared THEN WithSpec(S1, field, "default", r.instance) ELSE S1
    IN IF r.exc # NoExc THEN [instance |-> inst2, schema |-> S2, exc |-> r.exc]
       ELSE ApplyDefaultsFields(S2, inst2, Tail(fields))

\* instance[field] = default stores the default object itself: the fields a
\* call filled with a literal default, given the document before and after
FilledWithLiteral(S, inst, after) ==
    {f \in (DOMAIN S[2].doc_spec) \cap ((DOMAIN after[2]) \ (DOMAIN inst[2])) :
        /\ "default" \in DOMAIN S[2].doc_spec[f][2]
        /\ ~Callable(S[2].doc_spec[f][2]["default"])}

\* the schema once the objects doc holds at the fields held, which are the
\* schema's own defaults, have come to be as doc shows them
Rebind(S, held, doc) ==
    SchemaObj([f \in DOMAIN S[2].doc_spec |->
                  IF f \in held
                  THEN PyDict(Put(S[2].doc_spec[f][2], "default", doc[2][f]))
                  ELSE S[2].doc_spec[f]],
              S[2].strict, S[2].validates)

\* the document of holder, as it reads once the defaults of S, which it
\* holds at its aliased fields, have changed
Seen(doc, holder, S) ==
    IF ~IsDict(doc) THEN doc
    ELSE PyDict([key \in DOMAIN doc[2] |->
                    IF <<holder, key>> \in aliased
                    THEN S[2].doc_spec[key][2]["default"] ELSE doc[2][key]])

\* the same, the call having come out as r
Outcome(who, doc, r) ==
    LET held == {f \in DOMAIN r.instance[2] : <<who, f>> \in aliased} IN
    [instance |-> r.instance,
     schema |-> Rebind(r.schema, held, r.instance),
     exc |-> r.exc,
     aliased |-> aliased \cup
                 {<<who, f>> : f \in FilledWithLiteral(schema, doc, r.instance)}]

\* schema.apply_defaults(doc) for the document held as who: the document and
\* the schema after the call, the exception and the aliases after it
DefaultsOutcome(who, doc) == Outcome(who, doc, ApplyDefaults(schema, doc))

\* the caller changes the value of a field in place: list.append(item), or
\* d[key] = item on a dict
InPlace(value) ==
    IF IsList(value) THEN PyList(Append(value[2], PyStr("appended")))
    ELSE PyDict(Put(value[2], "votes", PyInt(5)))

(***************************************************************************)
(* The schemas and documents of the model.                                 *)
(***************************************************************************)
\* the names a top-level document may carry
FieldNames == {"a", "b"}
ExtraKey(i) == "x" \o ToString(i)
Orders == {<<"a", "b">>, <<"b", "a">>}

\* a field spec with type T; required and nullable are "unset", "True" or "False"
Flags == {"unset", "True", "False"}
FieldSpec(T, req, nul) ==
    PyDict([key \in {"type"} \cup (IF req = "unset" THEN {} ELSE {"required"})
                             \cup (IF nul = "unset" THEN {} ELSE {"nullable"}) |->
               CASE key = "type" -> T
                 [] key = "required" -> PyBool(req = "True")
                 [] key = "nullable" -> PyBool(nul = "True")])

\* the types of sample.py's blog_post_schema, and a function that returns no type
SampleTypes ==
    {basestring,
     Mixed(<<basestring, int>>), Mixed(<<int, basestring>>),
     Array(basestring), Array(name_schema), name_schema,
     PyFunc("get_author_schema"), PyFunc("get_website_schema"),
     Array(PyFunc("editors_type")), PyFunc("returns_instance")}

\* field specs that carry validators
ValidatedSpecs ==
    {PyDict([type |-> basestring, validates |-> PyFunc("one_of")]),
     PyDict([type |-> Array(basestring), validates |-> PyFunc("length")]),
     PyDict([type |-> int, validates |-> PyList(<<PyFunc("gte"), PyFunc("lte")>>)])}

ASpecs ==
    {FieldSpec(int, req, nul) : req \in Flags, nul \in Flags}
    \cup {FieldSpec(T, req, "unset") : T \in SampleTypes, req \in {"unset", "True"}}
    \cup {FieldSpec(name_schema, "True", "True")}
    \cup ValidatedSpecs

BSpecs == {FieldSpec(int, "True", "unset")}

\* the doc specs: a is always declared, b may be
DocSpecs ==
    {[f \in {"a"} |-> sa] : sa \in ASpecs}
    \cup {[f \in {"a", "b"} |-> IF f = "a" THEN sa ELSE sb] :
             sa \in ASpecs, sb \in BSpecs}

\* documents
NameDocs ==
    {PyDict([first |-> PyStr("John"), last |-> PyStr("Humphreys")]),
     PyDict([first |-> PyStr("John")])}
AboutDocs ==
    {PyDict([first_name |-> PyStr("John"), last_name |-> PyStr("Humphreys"),
             birth_year |-> PyInt(1978), birth_month |-> PyInt(8),
             birth_day |-> PyInt(15)]),
     PyDict([first_name |-> PyStr("John"),
             birth_year |-> PyInt(1978), birth_month |-> PyInt(8),
             birth_day |-> PyInt(15)])}
SiteDocs ==
    {PyDict([url |-> PyStr("johnhumphreys.tumblr.com"), name |-> PyStr("Blog")]),
     PyDict([url |-> PyStr("johnhumphreys.tumblr.com")])}
Scalars == {PyNone, PyInt(5), PyStr("five"), PyStr("cooking"), PyFloat("5.5")}
ListItems == {PyStr("yum"), PyInt(55)} \cup NameDocs
Lists == UNION {{PyList(l) : l \in [1 .. n -> ListItems]} : n \in 0 .. MaxListLen}
AValues == Scalars \cup NameDocs \cup AboutDocs \cup SiteDocs \cup Lists
BValues == {PyInt(5), PyStr("five")}
\* the mark of a key the document does not carry
Absent == <<"absent", "">>

\* the document with a and b as given and n undeclared keys
Document(av, bv, n) ==
    PyDict([key \in (IF av = Absent THEN {} ELSE {"a"})
                    \cup (IF bv = Absent THEN {} ELSE {"b"})
                    \cup {ExtraKey(i) : i \in 1 .. n} |->
               CASE key = "a" -> av
                 [] key = "b" -> bv
                 [] OTHER -> PyStr("extra")])

\* values that are no document
RootValues == {PyInt(5), PyList(<<>>)}

(***************************************************************************)
(* The program: a schema is constructed, the caller supplies an instance   *)
(* and validates it.                                                       *)
(***************************************************************************)
Init ==
    /\ schema = PyNone
    /\ instance = PyNone
    /\ errors = EmptyMap
    /\ raised = NotRaised
    /\ order \in Orders
    /\ pc = "start"
    /\ calls = <<>>
    /\ clock = 0
    /\ other = PyNone
    /\ aliased = {}
    /\ constructed = PyNone

\* Schema.__init__(doc_spec, strict, validates)
ConstructSchema(doc_spec, strict, validates) ==
    /\ pc = "start"
    /\ LET e == Verify(doc_spec) IN
       IF e # NoExc
       \* _doc_spec and _strict are set; _verify raised before _validates was
       THEN /\ schema' = SchemaObj(doc_spec, strict, PyNone)
            /\ raised' = Raised(e)
            /\ pc' = "failed"
       ELSE /\ schema' = SchemaObj(doc_spec, strict, validates)
            /\ pc' = "ready"
            /\ UNCHANGED raised
    /\ constructed' = schema'
    /\ UNCHANGED <<instance, errors, order, calls, clock, other, aliased>>

\* Schema.__init__ with the given doc spec and validates left at its default
ConstructWith(doc_spec, strict) == ConstructSchema(doc_spec, strict, NoValidates)

Construct == \E doc_spec \in DocSpecs, strict \in BOOLEAN : ConstructWith(doc_spec, strict)

\* the caller has a document at hand
Supply ==
    /\ pc = "ready"
    /\ \/ \E av \in AValues \cup {Absent}, bv \in BValues \cup {Absent},
             n \in 0 .. MaxExtraKeys : instance' = Document(av, bv, n)
       \/ instance' \in RootValues
    /\ pc' = "supplied"
    /\ UNCHANGED <<schema, errors, raised, order, calls, clock, other, aliased, constructed>>

\* Schema.validate(instance)
Validate ==
    /\ pc = "supplied"
    /\ LET r == ValidateInstance(schema, instance, EmptyMap, "") IN
       /\ errors' = r.errors
       /\ raised' = ValidateOutcome(r)
       /\ calls' = r.calls
    /\ pc' = "validated"
    /\ UNCHANGED <<schema, instance, order, clock, other, aliased, constructed>>

Next == Construct \/ Supply \/ Validate

Spec == Init /\ [][Next]_vars

(***************************************************************************)
(* Construction with doc specs that may be malformed.                      *)
(***************************************************************************)
\* field specs after schema_test.py's TestSchemaVerification
MalformedSpecs ==
    {PyInt(45),
     PyDict(EmptyMap),
     PyDict([type |-> PyStr("wrong")]),
     PyDict([type |-> Array(PyStr("wrong"))]),
     PyDict([type |-> int, required |-> PyInt(23)]),
     PyDict([type |-> int, nullable |-> PyInt(23)]),
     PyDict([type |-> int, validates |-> PyStr("wrong")]),
     PyDict([type |-> int, validates |-> PyList(<<PyFunc("gte"), PyStr("wrong")>>)]),
     PyDict([type |-> int, validates |-> PyFunc("bad_validator")]),
     PyDict([type |-> int,
             validates |-> PyList(<<PyFunc("bad_validator"), PyFunc("gte")>>)]),
     PyDict([type |-> name_schema, validates |-> PyFunc("gte")]),
     PyDict([type |-> int, something |-> PyStr("wrong")]),
     PyDict([type |-> int, default |-> PyStr("wrong")]),
     PyDict([type |-> name_schema, default |-> PyStr("wrong")]),
     PyDict([type |-> Array(int), default |-> PyInt(5)]),
     PyDict([type |-> Array(int), default |-> PyList(<<PyInt(1), PyStr("x")>>)]),
     PyDict([type |-> Array(name_schema), default |-> PyList(<<PyInt(5)>>)])}

\* field specs with a default or validators that fit
DefaultedSpecs ==
    {PyDict([type |-> int, default |-> PyInt(4)]),
     PyDict([type |-> PyType("datetime"), default |-> PyFunc("stubnow")]),
     PyDict([type |-> name_schema, default |-> EmptyDict]),
     PyDict([type |-> name_schema, default |-> PyDict([wrong |-> True])]),
     PyDict([type |-> Array(basestring), default |-> PyList(<<PyStr("blog")>>)]),
     PyDict([type |-> Array(name_schema), default |-> PyList(<<EmptyDict>>)]),
     PyDict([type |-> Array(Array(int))]),
     PyDict([type |-> int, validates |-> PyCallable("partial")]),
     PyDict([type |-> PyFunc("get_website_schema"), default |-> PyStr("WEB")]),
     PyDict([type |-> Array(PyFunc("editors_type")),
             default |-> PyList(<<PyStr("Jordan Gansey")>>)]),
     PyDict([type |-> Array(Array(int)),
             default |-> PyList(<<PyList(<<PyInt(1)>>)>>)])}

VerifySpecs == MalformedSpecs \cup DefaultedSpecs \cup ASpecs

VerifyDocSpecs ==
    {[f \in {"a"} |-> sa] : sa \in VerifySpecs}
    \cup {[f \in {"a", "b"} |-> IF f = "a" THEN sa ELSE sb] :
             sa \in VerifySpecs,
             sb \in {FieldSpec(int, "True", "unset"),
                     PyDict([type |-> int, otherthing |-> PyStr("wrong")])}}

\* Schema.__init__ with any of these doc specs
ConstructAny ==
    \E doc_spec \in VerifyDocSpecs, strict \in BOOLEAN : ConstructWith(doc_spec, strict)

NextVerify == ConstructAny

SpecVerify == Init /\ [][NextVerify]_vars

(***************************************************************************)
(* Default application: a schema whose specs carry defaults is constructed,*)
(* the caller supplies a document and has the defaults applied to it.      *)
(***************************************************************************)
\* field specs after blog_post_schema's likes, creation_date, tags, content
\* and comments, and after the latest_comment and most_popular_comments of
\* schema_test.py
DefaultASpecs ==
    {PyDict([type |-> int, default |-> PyInt(0)]),
     PyDict([type |-> int]),
     PyDict([type |-> PyType("datetime"), default |-> PyFunc("stubnow")]),
     PyDict([type |-> Array(basestring), default |-> PyList(<<PyStr("blog")>>)]),
     PyDict([type |-> comment_schema, required |-> True]),
     PyDict([type |-> comment_schema, default |-> EmptyDict]),
     PyDict([type |-> Array(comment_schema), required |-> True]),
     PyDict([type |-> Array(comment_schema),
             default |-> PyList(<<EmptyDict, EmptyDict>>)]),
     PyDict([type |-> PyFunc("get_website_schema")]),
     PyDict([type |-> PyFunc("comments_type")]),
     PyDict([type |-> Array(PyFunc("comments_type"))]),
     PyDict([type |-> name_schema, required |-> True])}

DefaultBSpecs ==
    {PyDict([type |-> int, default |-> PyInt(0)]),
     PyDict([type |-> PyType("datetime"), default |-> PyFunc("stubnow")])}

DefaultDocSpecs ==
    {[f \in {"a"} |-> sa] : sa \in DefaultASpecs}
    \cup {[f \in {"a", "b"} |-> IF f = "a" THEN sa ELSE sb] :
             sa \in DefaultASpecs, sb \in DefaultBSpecs}

CommentDocs ==
    {EmptyDict, PyDict([comment |-> PyStr("Great post dude!"), votes |-> PyInt(3)])}
DefaultListItems == CommentDocs \cup {PyInt(5), PyStr("yum")}
DefaultLists ==
    UNION {{PyList(l) : l \in [1 .. n -> DefaultListItems]} : n \in 0 .. MaxListLen}
DefaultAValues == {PyNone, PyInt(35), PyStr("five")} \cup CommentDocs \cup DefaultLists
DefaultBValues == {PyNone, PyInt(35)}

ConstructDefaulted ==
    \E doc_spec \in DefaultDocSpecs, strict \in BOOLEAN : ConstructWith(doc_spec, strict)

SupplyForDefaults ==
    /\ pc = "ready"
    /\ \E av \in DefaultAValues \cup {Absent}, bv \in DefaultBValues \cup {Absent},
          n \in 0 .. MaxExtraKeys : instance' = Document(av, bv, n)
    /\ pc' = "supplied"
    /\ UNCHANGED <<schema, errors, raised, order, calls, clock, other, aliased, constructed>>

\* Schema.apply_defaults(instance)
ApplyDefaultsCall ==
    /\ pc = "supplied"
    /\ clock < MaxClock
    /\ LET r == DefaultsOutcome("instance", instance) IN
       /\ instance' = r.instance
       /\ schema' = r.schema
       /\ raised' = Raised(r.exc)
       /\ aliased' = r.aliased
    /\ clock' = clock + 1
    /\ pc' = "defaulted"
    /\ UNCHANGED <<errors, order, calls, other, constructed>>

\* Schema.apply_defaults(instance) once more, after a call that returned
ApplyDefaultsAgain ==
    /\ pc = "defaulted"
    /\ raised = NotRaised
    /\ clock < MaxClock
    /\ LET r == DefaultsOutcome("instance", instance) IN
       /\ instance' = r.instance
       /\ schema' = r.schema
       /\ raised' = Raised(r.exc)
       /\ aliased' = r.aliased
    /\ clock' = clock + 1
    /\ pc' = "defaulted again"
    /\ UNCHANGED <<errors, order, calls, other, constructed>>

NextDefaults ==
    ConstructDefaulted \/ SupplyForDefaults \/ ApplyDefaultsCall \/ ApplyDefaultsAgain

SpecDefaults == Init /\ [][NextDefaults]_vars

(***************************************************************************)
(* One schema shared by two documents: both have the defaults applied, the *)
(* caller validates and changes defaulted values in place.                 *)
(***************************************************************************)
\* after blog_post_schema's tags, likes and creation_date and the
\* latest_comment and most_popular_comments of schema_test.py
SharedASpecs ==
    {PyDict([type |-> Array(basestring), default |-> PyList(<<PyStr("blog")>>)]),
     PyDict([type |-> Array(basestring), default |-> PyType("list")]),
     PyDict([type |-> comment_schema, default |-> EmptyDict]),
     PyDict([type |-> Array(comment_schema), default |-> PyList(<<EmptyDict>>)]),
     PyDict([type |-> int, default |-> PyInt(0)])}

SharedDocSpecs ==
    {[f \in {"a"} |-> sa] : sa \in SharedASpecs}
    \cup {[f \in {"a", "b"} |->
             IF f = "a" THEN sa
             ELSE PyDict([type |-> PyType("datetime"), default |-> PyFunc("stubnow")])] :
             sa \in SharedASpecs}

SharedDocs == {EmptyDict, Document(PyList(<<PyStr("yum")>>), Absent, 0)}

ConstructShared == \E doc_spec \in SharedDocSpecs : ConstructWith(doc_spec, TRUE)

\* the caller has two documents at hand
SupplyBoth ==
    /\ pc = "ready"
    /\ instance' \in SharedDocs
    /\ other' \in SharedDocs
    /\ pc' = "both supplied"
    /\ UNCHANGED <<schema, errors, raised, order, calls, clock, aliased, constructed>>

\* schema.apply_defaults(instance)
DefaultInstance ==
    /\ pc = "both supplied"
    /\ clock < MaxClock
    /\ LET r == DefaultsOutcome("instance", instance) IN
       /\ instance' = r.instance
       /\ schema' = r.schema
       /\ raised' = Raised(r.exc)
       /\ aliased' = r.aliased
       /\ other' = Seen(other, "other", r.schema)
    /\ clock' = clock + 1
    /\ pc' = "instance defaulted"
    /\ UNCHANGED <<errors, order, calls, constructed>>

\* schema.apply_defaults(other), after the call on instance
DefaultOther ==
    /\ pc \in {"instance defaulted", "instance changed"}
    /\ clock < MaxClock
    /\ LET r == DefaultsOutcome("other", other) IN
       /\ other' = r.instance
       /\ schema' = r.schema
       /\ raised' = Raised(r.exc)
       /\ aliased' = r.aliased
       /\ instance' = Seen(instance, "instance", r.schema)
    /\ clock' = clock + 1
    /\ pc' = IF pc = "instance defaulted" THEN "both defaulted" ELSE "other defaulted later"
    /\ UNCHANGED <<errors, order, calls, constructed>>

\* the caller changes, in place, the list or dict that the document held as
\* who has at field f
ChangeInPlace(who, f) ==
    LET doc == IF who = "instance" THEN instance ELSE other
        after == PyDict(Put(doc[2], f, InPlace(doc[2][f])))
        S == IF <<who, f>> \in aliased THEN Rebind(schema, {f}, after) ELSE schema
    IN /\ schema' = S
       /\ IF who = "instance"
          THEN instance' = after /\ other' = Seen(other, "other", S)
          ELSE other' = after /\ instance' = Seen(instance, "instance", S)
       /\ UNCHANGED <<errors, raised, order, calls, clock, aliased, constructed>>

ChangeDefaulted ==
    /\ pc \in {"instance defaulted", "both defaulted"}
    /\ \E who \in {"instance", "other"} :
          LET doc == IF who = "instance" THEN instance ELSE other IN
          /\ who = "other" => pc = "both defaulted"
          /\ \E f \in DOMAIN doc[2] :
                /\ IsList(doc[2][f]) \/ IsDict(doc[2][f])
                /\ ChangeInPlace(who, f)
    /\ pc' = IF pc = "instance defaulted" THEN "instance changed" ELSE "changed"

\* schema.validate(instance), between the other calls
ValidateShared ==
    /\ pc \in {"both supplied", "instance defaulted", "instance changed",
               "both defaulted", "other defaulted later", "changed"}
    /\ LET r == ValidateInstance(schema, instance, EmptyMap, "") IN
       /\ errors' = r.errors
       /\ raised' = ValidateOutcome(r)
       /\ calls' = r.calls
    /\ UNCHANGED <<schema, instance, order, pc, clock, other, aliased, constructed>>

NextShared ==
    \/ ConstructShared
    \/ SupplyBoth
    \/ DefaultInstance
    \/ DefaultOther
    \/ ChangeDefaulted
    \/ ValidateShared

SpecShared == Init /\ [][NextShared]_vars

(***************************************************************************)
(* Validation with validators: schemas that carry schema-level validators, *)
(* fields that carry several validators, and arrays of a dynamic type.     *)
(***************************************************************************)
\* the validators a schema is constructed with: none, a list, or a single one
SchemaValidates ==
    {NoValidates,
     PyList(<<PyFunc("a_before_b"), PyFunc("small_a")>>),
     PyList(<<PyFunc("small_a"), PyFunc("a_before_b")>>),
     PyFunc("a_before_b")}

\* a nested schema with validators of its own
range_schema ==
    SchemaObj([a |-> PyDict([type |-> int, required |-> True]),
               b |-> PyDict([type |-> int])],
              TRUE, PyList(<<PyFunc("a_before_b"), PyFunc("small_a")>>))

ValidatorASpecs ==
    {PyDict([type |-> int]),
     PyDict([type |-> int, validates |-> PyFunc("lt")]),
     PyDict([type |-> int, validates |-> PyList(<<PyFunc("gte"), PyFunc("lte"), PyFunc("lt")>>)]),
     PyDict([type |-> int, validates |-> PyList(<<PyFunc("lt"), PyFunc("lte")>>)]),
     PyDict([type |-> Array(basestring), validates |-> PyFunc("length")]),
     PyDict([type |-> Array(range_schema), validates |-> PyFunc("length")]),
     PyDict([type |-> range_schema, required |-> True]),
     PyDict([type |-> Array(PyFunc("editors_type"))]),
     PyDict([type |-> Array(PyFunc("editors_type")), validates |-> PyFunc("length")]),
     PyDict([type |-> Array(PyFunc("get_author_schema"))]),
     PyDict([type |-> Array(PyFunc("returns_instance"))]),
     PyDict([type |-> PyFunc("get_author_schema"), required |-> True])}

ValidatorDocSpecs ==
    {[f \in {"a"} |-> sa] : sa \in ValidatorASpecs}
    \cup {[f \in {"a", "b"} |-> IF f = "a" THEN sa ELSE PyDict([type |-> int])] :
             sa \in ValidatorASpecs}

RangeDocs ==
    {EmptyDict,
     PyDict([a |-> PyInt(3), b |-> PyInt(5)]),
     PyDict([a |-> PyInt(35), b |-> PyInt(5)])}
ValidatorListItems == {PyStr("yum"), PyInt(55)} \cup RangeDocs
ValidatorLists ==
    UNION {{PyList(l) : l \in [1 .. n -> ValidatorListItems]} : n \in 0 .. MaxListLen}
ValidatorAValues ==
    {PyNone, PyInt(0), PyInt(3), PyInt(7), PyInt(35), PyStr("five")}
    \cup RangeDocs \cup ValidatorLists \cup {CHOOSE d \in NameDocs : "last" \in DOMAIN d[2]}
ValidatorBValues == {PyInt(5), PyStr("five")}

ConstructValidated ==
    \E doc_spec \in ValidatorDocSpecs, validates \in SchemaValidates :
        ConstructSchema(doc_spec, TRUE, validates)

SupplyForValidators ==
    /\ pc = "ready"
    /\ \/ \E av \in ValidatorAValues \cup {Absent}, bv \in ValidatorBValues \cup {Absent} :
             instance' = Document(av, bv, 0)
       \/ instance' \in RootValues
    /\ pc' = "supplied"
    /\ UNCHANGED <<schema, errors, raised, order, calls, clock, other, aliased, constructed>>

NextValidators == ConstructValidated \/ SupplyForValidators \/ Validate

SpecValidators == Init /\ [][NextValidators]_vars

(***************************************************************************)
(* Properties of construction.                                             *)
(***************************************************************************)
\* the doc spec of the schema object and the names it declares
DocSpec == schema[2].doc_spec
Declared == DOMAIN DocSpec
SpecKeys == {"type", "required", "nullable", "default", "validates"}

\* a validator the claim rejects: no callable, or a callable that does not
\* take exactly one positional argument
BadValidator(validator) ==
    \/ ~Callable(validator)
    \/ IsFunction(validator) /\ validator[2] \in {"bad_validator", "stubnow"}

\* a literal default fits its type: an instance of a primitive type, a
\* mapping for a Schema, a sequence of fitting items for an Array
RECURSIVE DefaultFits(_, _)
DefaultFits(type, default) ==
    IF IsSchema(type) THEN IsDict(default)
    ELSE IF IsArray(type)
    THEN /\ IsList(default)
         /\ \A i \in 1 .. Len(default[2]) : DefaultFits(type[2], default[2][i])
    ELSE IF IsType(type) THEN IsInstance(default, type)
    ELSE TRUE

\* the defects of a field spec that the claim lists
Defective(spec) ==
    \/ ~IsDict(spec)
    \/ "type" \notin DOMAIN spec[2]
    \/ LET type == spec[2]["type"] IN
          \/ ~(IsType(type) \/ IsFunction(type) \/ IsArray(type) \/ IsSchema(type))
          \/ IsArray(type) /\ ~(IsType(type[2]) \/ IsSchema(type[2])
                                \/ IsArray(type[2]) \/ IsFunction(type[2]))
          \/ IsSchema(type) /\ "validates" \in DOMAIN spec[2]
          \/ /\ "default" \in DOMAIN spec[2]
             /\ ~Callable(spec[2]["default"])
             /\ ~DefaultFits(type, spec[2]["default"])
    \/ "required" \in DOMAIN spec[2] /\ ~IsBool(spec[2]["required"])
    \/ "nullable" \in DOMAIN spec[2] /\ ~IsBool(spec[2]["nullable"])
    \/ /\ "validates" \in DOMAIN spec[2]
       /\ LET validates == spec[2]["validates"] IN
          IF IsList(validates)
          THEN \E i \in 1 .. Len(validates[2]) : BadValidator(validates[2][i])
          ELSE BadValidator(validates)
    \/ ~((DOMAIN spec[2]) \subseteq SpecKeys)

Offending == {f \in Declared : Defective(DocSpec[f])}

\* C9: construction raises SchemaFormatException at the name of a field
\* whose spec has one of the listed defects, for strict and non-strict
\* schemas alike, and succeeds when no field spec has one.
C9_VerificationAtConstruction ==
    pc \in {"ready", "failed"} =>
        IF Offending = {} THEN pc = "ready"
        ELSE /\ pc = "failed"
             /\ raised.kind = "SchemaFormatException"
             /\ raised.path \in Offending

\* the same, wherever construction ends without a TypeError
C9_ExceptTypeError ==
    (pc \in {"ready", "failed"} /\ raised.kind # "TypeError") =>
        IF Offending = {} THEN pc = "ready"
        ELSE /\ pc = "failed"
             /\ raised.kind = "SchemaFormatException"
             /\ raised.path \in Offending

\* construction ends with a TypeError
C9_TypeErrorReached == pc = "failed" /\ raised.kind = "TypeError"

\* a field spec without its default
WithoutDefault(spec) == PyDict([key \in (DOMAIN spec[2]) \ {"default"} |-> spec[2][key]])
\* a field spec whose only possible defect is its default: it has none of the
\* other defects, and its validators are Python functions
SoundButForDefault(spec) ==
    /\ IsDict(spec)
    /\ ~Defective(WithoutDefault(spec))
    /\ "validates" \in DOMAIN spec[2] =>
          LET validates == spec[2]["validates"] IN
          IF IsList(validates)
          THEN \A i \in 1 .. Len(validates[2]) : IsFunction(validates[2][i])
          ELSE IsFunction(validates)
\* the declared fields that carry a default, and those whose literal default
\* does not fit the type
WithDefault == {f \in Declared : "default" \in DOMAIN DocSpec[f][2]}
Unfit ==
    {f \in WithDefault :
        /\ ~Callable(DocSpec[f][2]["default"])
        /\ ~DefaultFits(DocSpec[f][2]["type"], DocSpec[f][2]["default"])}
\* a type _verify_default checks a literal default against with isinstance on
\* a class or with the mapping test: a class, a Schema, or an Array of one
CheckedByClass(type) ==
    \/ IsType(type)
    \/ IsSchema(type)
    \/ IsArray(type) /\ (IsType(type[2]) \/ IsSchema(type[2]))

\* C23: where the default is the only possible defect of the field specs,
\* construction succeeds or raises SchemaFormatException at the path of a
\* field with a default, and nothing else; a callable default is accepted,
\* and a literal default is accepted exactly when it fits the type: an
\* instance of a primitive type, a mapping for a Schema, a sequence of
\* fitting items for an Array.  This for every type the verifier accepts, a
\* function and an Array of a function or of an Array included.
C23_DefaultCompatibility ==
    (pc \in {"ready", "failed"}
        /\ (\A f \in Declared : SoundButForDefault(DocSpec[f]))
        /\ WithDefault # {}) =>
        IF Unfit = {} THEN pc = "ready"
        ELSE /\ pc = "failed"
             /\ raised.kind = "SchemaFormatException"
             /\ raised.path \in Unfit

\* the same of the defaults whose type is a class, a Schema or an Array of one
C23_OnClassesAndSchemas ==
    (pc \in {"ready", "failed"}
        /\ (\A f \in Declared : SoundButForDefault(DocSpec[f]))
        /\ WithDefault # {}
        /\ (\A g \in WithDefault : CheckedByClass(DocSpec[g][2]["type"]))) =>
        IF Unfit = {} THEN pc = "ready"
        ELSE /\ pc = "failed"
             /\ raised.kind = "SchemaFormatException"
             /\ raised.path \in Unfit

\* construction ends with a TypeError for a literal default under a function
C23_TypeErrorReached ==
    /\ pc = "failed"
    /\ raised.kind = "TypeError"
    /\ Declared = {"a"}
    /\ DocSpec["a"] = PyDict([type |-> PyFunc("get_website_schema"),
                              default |-> PyStr("WEB")])

\* a default list with an item that does not fit is rejected at the field
C23_RejectReached ==
    /\ pc = "failed"
    /\ raised.kind = "SchemaFormatException"
    /\ raised.path = "a"
    /\ DocSpec["a"] = PyDict([type |-> Array(int),
                              default |-> PyList(<<PyInt(1), PyStr("x")>>)])
    /\ \A f \in Declared : SoundButForDefault(DocSpec[f])

(***************************************************************************)
(* Properties of validation.                                               *)
(***************************************************************************)
\* validate has walked the whole document: it returned or raised
\* ValidationException
Completed == pc = "validated" /\ raised.kind \in {"none", "ValidationException"}
CompletedOnDict == Completed /\ IsDict(instance)
\* the error set a schema's traversal of a document accumulates
ErrorsOf(S, inst) == ValidateInstance(S, inst, EmptyMap, "").errors
\* a document without one key, and a function cut down to some arguments
Without(inst, f) == PyDict([key \in (DOMAIN inst[2]) \ {f} |-> inst[2][key]])
Restrict(fn, keys) == [x \in (DOMAIN fn) \cap keys |-> fn[x]]

\* C1: validate raises ValidationException exactly when the error set its
\* complete traversal accumulated is non-empty, the exception carries that
\* whole set, validate returns silently exactly when the set is empty, and
\* no traversal step raises ValidationException itself.
C1_RaisesAfterFullTraversal ==
    pc = "validated" =>
        LET r == ValidateInstance(schema, instance, EmptyMap, "") IN
        /\ r.exc.kind # "ValidationException"
        /\ raised.kind = "ValidationException" => r.exc = NoExc
        /\ r.exc = NoExc =>
              /\ (raised.kind = "ValidationException") <=> (DOMAIN r.errors # {})
              /\ raised.kind = "ValidationException" => raised.errors = r.errors
              /\ (raised = NotRaised) <=> (DOMAIN r.errors = {})

\* a validate call that raised ValidationException with several entries
C1_Witness ==
    /\ pc = "validated"
    /\ raised.kind = "ValidationException"
    /\ Cardinality(DOMAIN raised.errors) >= 3

\* C2: a declared field absent from the document has an entry at its path,
\* '<path> is required.', exactly when its spec has required = true; and a
\* conforming document with one required field removed has that field's
\* entry as its only error.
C2_RequiredFieldMissing ==
    CompletedOnDict =>
        /\ \A f \in Declared \ DOMAIN instance[2] :
              LET spec == DocSpec[f][2]
                  required == "required" \in DOMAIN spec /\ spec["required"][2]
              IN /\ (f \in DOMAIN errors) <=> required
                 /\ required => errors[f] = f \o " is required."
        /\ DOMAIN errors = {} =>
              \A f \in Declared \cap DOMAIN instance[2] :
                  ("required" \in DOMAIN DocSpec[f][2]
                       /\ DocSpec[f][2]["required"][2])
                  => ErrorsOf(schema, Without(instance, f))
                         = (f :> (f \o " is required."))

\* a required field and a non-required field are both absent, and only the
\* required one is reported
C2_Witness ==
    /\ CompletedOnDict
    /\ Declared = {"a", "b"}
    /\ DOMAIN instance[2] = {}
    /\ "required" \notin DOMAIN DocSpec["a"][2]
    /\ errors = ("b" :> "b is required.")

\* C3: a field present with value None has the entry '<path> is not
\* nullable.' exactly when its effective nullable flag is false: the declared
\* nullable, else the negation of required (required defaulting to false).
C3_Nullability ==
    CompletedOnDict =>
        \A f \in Declared \cap DOMAIN instance[2] :
            instance[2][f][1] = "NoneType" =>
                LET spec == DocSpec[f][2]
                    required == IF "required" \in DOMAIN spec
                                THEN spec["required"][2] ELSE FALSE
                    nullable == IF "nullable" \in DOMAIN spec
                                THEN spec["nullable"][2] ELSE ~required
                IN IF nullable THEN f \notin DOMAIN errors
                   ELSE f \in DOMAIN errors /\ errors[f] = f \o " is not nullable."

\* required: true without nullable rejects None
C3_Witness ==
    /\ CompletedOnDict
    /\ DocSpec["a"] = FieldSpec(int, "True", "unset")
    /\ "a" \in DOMAIN instance[2]
    /\ instance[2]["a"][1] = "NoneType"
    /\ "a" \in DOMAIN errors
    /\ errors["a"] = "a is not nullable."

\* C4: under a strict schema every undeclared key of the document has an
\* entry at its path; under the non-strict schema with the same spec the
\* other entries are the same and the undeclared keys have none, so a
\* document whose declared part is valid validates cleanly.
C4_StrictMode ==
    CompletedOnDict =>
        LET extra == (DOMAIN instance[2]) \ Declared
            twin == SchemaObj(DocSpec, ~schema[2].strict, schema[2].validates)
            declaredPart == PyDict(Restrict(instance[2], Declared))
        IN /\ schema[2].strict =>
                 /\ \A key \in extra : key \in DOMAIN errors
                 /\ ErrorsOf(twin, instance)
                        = Restrict(errors, (DOMAIN errors) \ extra)
           /\ ~schema[2].strict =>
                 /\ \A key \in extra : key \notin DOMAIN errors
                 /\ ErrorsOf(schema, declaredPart) = EmptyMap
                        => DOMAIN errors = {}

\* a non-strict schema accepts a document that carries an undeclared key
C4_Witness ==
    /\ CompletedOnDict
    /\ ~schema[2].strict
    /\ (DOMAIN instance[2]) \ Declared # {}
    /\ "a" \in DOMAIN instance[2]
    /\ raised = NotRaised

\* the errors of one declared field, validated on its own
FieldErrors(f) == ValidateFields(schema, instance, EmptyMap, "", <<f>>).errors
\* the errors of all declared fields, each validated on its own
AllFieldErrors ==
    [p \in UNION {DOMAIN FieldErrors(f) : f \in Declared} |->
        FieldErrors(CHOOSE f \in Declared : p \in DOMAIN FieldErrors(f))[p]]

\* C5: the error set is the union of the errors of each declared field taken
\* on its own (and of the undeclared keys); and in a list under
\* Array(basestring) exactly the items that are no strings have an entry,
\* at '<field>.<index>'.
C5_Isolation ==
    CompletedOnDict =>
        /\ Restrict(errors, (DOMAIN errors) \ ((DOMAIN instance[2]) \ Declared))
               = AllFieldErrors
        /\ \A f \in Declared \cap DOMAIN instance[2] :
              (DocSpec[f][2]["type"] = Array(basestring) /\ IsList(instance[2][f]))
              => \A i \in 1 .. Len(instance[2][f][2]) :
                     (AppendPath(f, ToString(i - 1)) \in DOMAIN errors)
                         <=> (instance[2][f][2][i][1] # "str")

\* missing required fields at two depths are reported together
C5_Witness ==
    /\ CompletedOnDict
    /\ {"b", "a.0.last", "a.1.last"} \subseteq DOMAIN errors

\* exactly the item at index 1 of an Array(basestring) value is reported
C5_ArrayWitness ==
    /\ CompletedOnDict
    /\ DocSpec["a"] = FieldSpec(Array(basestring), "unset", "unset")
    /\ "a" \in DOMAIN instance[2]
    /\ instance[2]["a"] = PyList(<<PyStr("yum"), PyInt(55)>>)
    /\ DOMAIN errors = {"a.1"}

\* the names on a route from the root, joined with '.'
RECURSIVE JoinPath(_)
JoinPath(names) ==
    IF names = <<>> THEN ""
    ELSE IF Len(names) = 1 THEN names[1]
    ELSE JoinPath(SubSeq(names, 1, Len(names) - 1)) \o "." \o names[Len(names)]

\* the routes, below a document under name_schema, that get an entry: the
\* required names it lacks and the names it carries that are not declared
NameRoutes(route, doc) ==
    {route \o <<c>> : c \in ({"first", "last"} \ DOMAIN doc[2])
                          \cup ((DOMAIN doc[2]) \ {"first", "last"})}

\* C6: an entry's path is the names on its route from the root joined with
\* '.', a list index being a bare number: `f` for a top-level field, `p.c`
\* for a field of a nested document, `p.i.c` for a field of the i-th item of
\* an array, and the empty string for the root document itself.
C6_PathComposition ==
    Completed =>
        /\ ~IsDict(instance) => DOMAIN errors = {JoinPath(<<>>)}
        /\ IsDict(instance) =>
              /\ \A f \in Declared \ DOMAIN instance[2] :
                    IsRequired(DocSpec[f][2]) => JoinPath(<<f>>) \in DOMAIN errors
              /\ \A f \in Declared \cap DOMAIN instance[2] :
                    LET value == instance[2][f]
                        type == DocSpec[f][2]["type"]
                    IN /\ (type = name_schema /\ IsDict(value)) =>
                              DOMAIN FieldErrors(f)
                                  = {JoinPath(r) : r \in NameRoutes(<<f>>, value)}
                       /\ (type = Array(name_schema) /\ IsList(value)) =>
                              DOMAIN FieldErrors(f)
                                  = UNION {IF IsDict(value[2][i])
                                           THEN {JoinPath(r) : r \in
                                                   NameRoutes(<<f, ToString(i - 1)>>,
                                                              value[2][i])}
                                           ELSE {JoinPath(<<f, ToString(i - 1)>>)} :
                                           i \in 1 .. Len(value[2])}

\* a top-level entry and an entry below the second item of an array
C6_Witness ==
    /\ CompletedOnDict
    /\ DocSpec["a"][2]["type"] = Array(name_schema)
    /\ DOMAIN errors = {"b", "a.1.last"}

\* an entry below a nested document
C6_NestedWitness ==
    /\ CompletedOnDict
    /\ DocSpec["a"][2]["type"] = name_schema
    /\ DOMAIN errors = {"a.last"}

\* the schema with the type of field f replaced
WithType(S, f, T) == WithSpec(S, f, "type", T)

\* C7: a present, non-null value of a field whose type is a dynamic-type
\* function is validated against exactly the type the function returns for
\* it; if the function raises, validate ends with a SchemaFormatException at
\* the field's path and raises no ValidationException.
C7_DynamicType ==
    (pc = "validated" /\ IsDict(instance)) =>
        \A f \in Declared \cap DOMAIN instance[2] :
            LET value == instance[2][f]
                type == DocSpec[f][2]["type"]
                out == CallType(type, value)
                static == ValidateInstance(WithType(schema, f, out.ret),
                                           instance, EmptyMap, "")
            IN (IsFunction(type) /\ value[1] # "NoneType") =>
                  /\ out.exc # "none" =>
                        raised = Raised(SchemaFormatException(AppendPath("", f)))
                  /\ (out.exc = "none"
                        /\ (IsType(out.ret) \/ IsSchema(out.ret) \/ IsArray(out.ret))) =>
                        /\ errors = static.errors
                        /\ raised = ValidateOutcome(static)

\* the function chose about_schema for this value and a field of it is missing
C7_Witness ==
    /\ CompletedOnDict
    /\ DocSpec["a"][2]["type"] = PyFunc("get_author_schema")
    /\ "a" \in DOMAIN instance[2]
    /\ DOMAIN errors = {"a.last_name"}
    /\ raised.kind = "ValidationException"

\* the function raised on this value
C7_RaiseWitness ==
    /\ pc = "validated"
    /\ IsDict(instance)
    /\ DocSpec["a"][2]["type"] = PyFunc("get_author_schema")
    /\ "a" \in DOMAIN instance[2]
    /\ instance[2]["a"] = PyInt(5)
    /\ raised.kind = "SchemaFormatException"
    /\ raised.path = "a"

Reverse(seq) == [i \in 1 .. Len(seq) |-> seq[Len(seq) + 1 - i]]

\* C8: a present, non-null value of a field typed Mixed(T1, ..., Tn) gets no
\* entry if it is an instance of some Ti, whatever the order of the Ti, and
\* otherwise exactly one entry, the type mismatch at the field's path.
C8_MixedType ==
    CompletedOnDict =>
        \A f \in Declared \cap DOMAIN instance[2] :
            LET value == instance[2][f]
                type == DocSpec[f][2]["type"]
                names == {type[2][i][2] : i \in 1 .. Len(type[2])}
                accepted == \/ "int" \in names /\ value[1] \in {"int", "bool"}
                            \/ "basestring" \in names /\ value[1] = "str"
            IN (type[1] = "Mixed" /\ value[1] # "NoneType") =>
                  /\ DOMAIN FieldErrors(f) = IF accepted THEN {} ELSE {f}
                  /\ ~accepted => errors[f] = "Field should be of type Mixed"
                  /\ ErrorsOf(WithType(schema, f, Mixed(Reverse(type[2]))), instance)
                         = errors

\* Mixed(int, basestring) accepts 5 next to a rejected sibling
C8_Witness ==
    /\ CompletedOnDict
    /\ DocSpec["a"][2]["type"] = Mixed(<<int, basestring>>)
    /\ "a" \in DOMAIN instance[2]
    /\ instance[2]["a"] = PyInt(5)
    /\ "a" \notin DOMAIN errors

\* Mixed(int, basestring) rejects 5.5
C8_RejectWitness ==
    /\ CompletedOnDict
    /\ DocSpec["a"][2]["type"] = Mixed(<<int, basestring>>)
    /\ "a" \in DOMAIN instance[2]
    /\ instance[2]["a"] = PyFloat("5.5")
    /\ DOMAIN errors = {"a"}

(***************************************************************************)
(* Properties of default application.                                      *)
(***************************************************************************)
\* new holds everything old held: a dict keeps its keys and a list its
\* items, each keeping its content; anything else is unchanged
RECURSIVE Keeps(_, _)
Keeps(old, new) ==
    IF old[1] # new[1] THEN FALSE
    ELSE IF IsDict(old)
    THEN \A key \in DOMAIN old[2] : key \in DOMAIN new[2] /\ Keeps(old[2][key], new[2][key])
    ELSE IF IsList(old)
    THEN /\ Len(new[2]) = Len(old[2])
         /\ \A i \in 1 .. Len(old[2]) : Keeps(old[2][i], new[2][i])
    ELSE old[2] = new[2]

\* the declared fields whose spec has a default
Defaulted == {f \in Declared : "default" \in DOMAIN DocSpec[f][2]}
\* the default of field f, called if it is callable
Materialized(f) ==
    LET default == DocSpec[f][2]["default"] IN
    IF Callable(default) THEN CallDefault(default).ret ELSE default

\* what the claim says of one apply_defaults call
WritesOnlyAbsentFields ==
    /\ \A f \in Defaulted \ DOMAIN instance[2] :
          f \in DOMAIN instance'[2] /\ Keeps(Materialized(f), instance'[2][f])
    /\ \A key \in DOMAIN instance[2] :
          key \in DOMAIN instance'[2] /\ Keeps(instance[2][key], instance'[2][key])
    /\ DOMAIN instance'[2] = (DOMAIN instance[2]) \cup Defaulted

\* C10: apply_defaults sets every absent declared field that has a default
\* to that default (called if callable), leaves every key already present
\* with its value, None included, and adds no other key at that level.
C10_DefaultsOnlyWhenAbsent ==
    [][(pc = "supplied" /\ pc' = "defaulted") => WritesOnlyAbsentFields]_vars

\* the same of the calls that return
C10_WhenNothingRaised ==
    [][(pc = "supplied" /\ pc' = "defaulted" /\ raised' = NotRaised)
           => WritesOnlyAbsentFields]_vars

\* apply_defaults raised, and left a field with a default absent
C10_AbortReached ==
    /\ pc = "defaulted"
    /\ raised.kind = "TypeError"
    /\ "b" \in Defaulted \ DOMAIN instance[2]

\* a step that is a call of apply_defaults on the supplied document
FirstCall == pc = "supplied" /\ pc' = "defaulted"
\* a step that is the second call on the same document
SecondCall == pc = "defaulted" /\ pc' = "defaulted again"

\* C11: apply_defaults is idempotent: after a call that returned, a second
\* call on the same document leaves it, at every nesting level, as the
\* first call left it, and raises nothing, even where a default is a
\* function that returns another value at each call.
C11_Idempotent ==
    [][SecondCall => (instance' = instance /\ raised' = NotRaised)]_vars

\* a second call has run on a document whose b was filled from the clock, at
\* a time the clock shows another value, and whose a is a list of documents
\* filled from a literal default
C11_Witness ==
    /\ pc = "defaulted again"
    /\ {"a", "b"} \subseteq Defaulted
    /\ Callable(DocSpec["b"][2]["default"])
    /\ instance[2]["b"] = datetime(0)
    /\ CallDefault(DocSpec["b"][2]["default"]).ret # instance[2]["b"]
    /\ instance[2]["a"] = PyList(<<PyDict([votes |-> PyInt(0)]),
                                   PyDict([votes |-> PyInt(0)])>>)

\* the fields of schema S that have a default
DefaultedOf(S) ==
    {g \in DOMAIN S[2].doc_spec : "default" \in DOMAIN S[2].doc_spec[g][2]}

\* doc, and every document below it, carries each defaulted field of its schema
RECURSIVE AllFilled(_, _)
AllFilled(S, doc) ==
    /\ DefaultedOf(S) \subseteq DOMAIN doc[2]
    /\ \A g \in (DOMAIN S[2].doc_spec) \cap (DOMAIN doc[2]) :
          LET T == S[2].doc_spec[g][2]["type"]
              v == doc[2][g]
          IN /\ (IsSchema(T) /\ IsDict(v)) => AllFilled(T, v)
             /\ (IsArray(T) /\ IsSchema(T[2]) /\ IsList(v)) =>
                   \A i \in 1 .. Len(v[2]) : IsDict(v[2][i]) => AllFilled(T[2], v[2][i])

\* what the claim says of the values whose shape does not fit the recursion:
\* they are left as they are, and the documents beside them are filled
SkipsMismatches ==
    \A f \in Declared \cap DOMAIN instance[2] :
        LET T == DocSpec[f][2]["type"]
            v == instance[2][f]
            w == instance'[2][f]
        IN /\ (IsSchema(T) /\ ~IsDict(v)) => w = v
           /\ (IsArray(T) /\ IsSchema(T[2]) /\ ~IsList(v)) => w = v
           /\ (IsArray(T) /\ IsSchema(T[2]) /\ IsList(v)) =>
                 /\ IsList(w) /\ Len(w[2]) = Len(v[2])
                 /\ \A i \in 1 .. Len(v[2]) :
                       IF IsDict(v[2][i]) THEN AllFilled(T[2], w[2][i])
                       ELSE w[2][i] = v[2][i]

\* C12: apply_defaults never raises on a document, whatever the shape of its
\* values: a value that is no document under a Schema field, no list under
\* an Array(Schema) field, or an item that is no document in such a list is
\* skipped, and the other fields and items are still processed.
C12_NeverRaises ==
    [][FirstCall =>
          /\ raised' = NotRaised
          /\ SkipsMismatches
          /\ Defaulted \subseteq DOMAIN instance'[2]]_vars

\* the same of the documents whose lists under Array(Schema) hold only documents
C12_OnDocumentItems ==
    [][(FirstCall
          /\ \A f \in Declared \cap DOMAIN instance[2] :
                (IsArray(DocSpec[f][2]["type"]) /\ IsSchema(DocSpec[f][2]["type"][2])
                    /\ IsList(instance[2][f]))
                => \A i \in 1 .. Len(instance[2][f][2]) : IsDict(instance[2][f][2][i]))
        => (raised' = NotRaised /\ SkipsMismatches
              /\ Defaulted \subseteq DOMAIN instance'[2])]_vars

\* C13: after the top-level pass apply_defaults recurses into every declared
\* field now present: a document under a Schema field, and every document
\* in a list under an Array(Schema) field, receives its schema's defaults,
\* so that after the call every nested document reachable this way has each
\* absent defaulted field filled, those that came from a default included.
C13_RecursesIntoNested ==
    [][FirstCall =>
          \A f \in Declared \cap DOMAIN instance'[2] :
              LET T == DocSpec[f][2]["type"]
                  w == instance'[2][f]
              IN /\ (IsSchema(T) /\ IsDict(w)) => AllFilled(T, w)
                 /\ (IsArray(T) /\ IsSchema(T[2]) /\ IsList(w)) =>
                       \A i \in 1 .. Len(w[2]) :
                           IsDict(w[2][i]) => AllFilled(T[2], w[2][i])]_vars

\* the same of the calls that return
C13_WhenNothingRaised ==
    [][(FirstCall /\ raised' = NotRaised) =>
          \A f \in Declared \cap DOMAIN instance'[2] :
              LET T == DocSpec[f][2]["type"]
                  w == instance'[2][f]
              IN /\ (IsSchema(T) /\ IsDict(w)) => AllFilled(T, w)
                 /\ (IsArray(T) /\ IsSchema(T[2]) /\ IsList(w)) =>
                       \A i \in 1 .. Len(w[2]) :
                           IsDict(w[2][i]) => AllFilled(T[2], w[2][i])]_vars

\* a call returned and left the documents of a default list filled
C13_FilledReached ==
    /\ pc = "defaulted"
    /\ raised = NotRaised
    /\ "a" \in Declared
    /\ constructed[2].doc_spec["a"][2] =
           [type |-> Array(comment_schema), default |-> PyList(<<EmptyDict, EmptyDict>>)]
    /\ instance[2]["a"] = PyList(<<PyDict([votes |-> PyInt(0)]),
                                   PyDict([votes |-> PyInt(0)])>>)

\* C22: apply_defaults consults the dynamic-type functions as validate does:
\* for a present field whose declared type is a function, or an Array of a
\* function, the type is resolved for the value (for each item), and where it
\* resolves to a Schema, or an Array of a Schema, the document (each document
\* of the list) receives that schema's defaults.
C22_DefaultsConsultDynamicTypes ==
    [][FirstCall =>
          \A f \in Declared \cap DOMAIN instance'[2] :
              LET T == DocSpec[f][2]["type"]
                  w == instance'[2][f]
              IN /\ (IsFunction(T) /\ IsDict(w) /\ IsSchema(CallType(T, w).ret))
                       => AllFilled(CallType(T, w).ret, w)
                 /\ (IsFunction(T) /\ IsList(w) /\ IsArray(CallType(T, w).ret)
                        /\ IsSchema(CallType(T, w).ret[2]))
                       => \A i \in 1 .. Len(w[2]) :
                              IsDict(w[2][i]) => AllFilled(CallType(T, w).ret[2], w[2][i])
                 /\ (IsArray(T) /\ IsFunction(T[2]) /\ IsList(w))
                       => \A i \in 1 .. Len(w[2]) :
                              (IsDict(w[2][i]) /\ IsSchema(CallType(T[2], w[2][i]).ret))
                              => AllFilled(CallType(T[2], w[2][i]).ret, w[2][i])]_vars

\* what apply_defaults does: the value of a field whose declared type is a
\* function, or an Array of a function, is left as it is
C22_DynamicTypesLeftAlone ==
    [][FirstCall =>
          \A f \in Declared \cap DOMAIN instance[2] :
              LET T == DocSpec[f][2]["type"] IN
              (IsFunction(T) \/ (IsArray(T) /\ IsFunction(T[2])))
              => (f \in DOMAIN instance'[2] /\ instance'[2][f] = instance[2][f])]_vars

\* a call returned and left a document unfilled whose type the function
\* resolves to a schema with a default
C22_UnfilledReached ==
    /\ pc = "defaulted"
    /\ raised = NotRaised
    /\ DocSpec["a"][2]["type"] = PyFunc("comments_type")
    /\ "a" \in DOMAIN instance[2]
    /\ instance[2]["a"] = EmptyDict
    /\ DefaultedOf(CallType(PyFunc("comments_type"), instance[2]["a"]).ret) = {"votes"}

(***************************************************************************)
(* Properties of a shared schema.                                          *)
(***************************************************************************)
\* a step the caller's own change of a document makes
CallerChange == pc' \in {"instance changed", "changed"} /\ pc' # pc
\* a step that is a call of validate
ValidateCall == pc' = pc /\ pc \notin {"start", "ready", "failed"}

\* C14: a Schema is never changed after construction: whatever validate and
\* apply_defaults calls are made, its field specs, every literal default in
\* them included, its strict flag and its validators stay as construction
\* left them; and validate leaves the instance as it is.
C14_SchemaNeverMutated ==
    [][/\ (pc \notin {"start"} /\ ~CallerChange) => schema' = constructed
       /\ ValidateCall => instance' = instance]_vars

\* validate changes neither the schema nor the instance
C14_ValidateChangesNothing ==
    [][ValidateCall => (schema' = schema /\ instance' = instance /\ other' = other)]_vars

\* apply_defaults has changed a literal default of the schema
C14_MutatedReached ==
    /\ pc = "instance defaulted"
    /\ schema # constructed
    /\ constructed[2].doc_spec["a"][2]["default"] = EmptyDict
    /\ schema[2].doc_spec["a"][2]["default"] = PyDict([votes |-> PyInt(0)])

\* C15: apply_defaults calls on two documents against one schema are
\* independent: each document ends as its call would leave it had it run
\* alone against the schema as constructed, and afterwards a change the
\* caller makes in place to a defaulted value of one document shows neither
\* in the other document nor in a document defaulted later.
C15_InstancesIndependent ==
    [][/\ pc' = "instance defaulted" =>
             instance' = ApplyDefaults(constructed, instance).instance
       /\ pc' \in {"both defaulted", "other defaulted later"} =>
             /\ other' = ApplyDefaults(constructed, other).instance
             /\ instance' = instance
       /\ CallerChange => (instance' = instance \/ other' = other)]_vars

\* the same of the fields whose default is a function or no list or dict
C15_WithoutSharedLiterals ==
    [][(/\ IsSchema(constructed)
        /\ \A f \in DOMAIN constructed[2].doc_spec :
               LET default == constructed[2].doc_spec[f][2]["default"] IN
               Callable(default) \/ ~(IsList(default) \/ IsDict(default)))
        => /\ pc' = "instance defaulted" =>
                 instance' = ApplyDefaults(constructed, instance).instance
           /\ pc' \in {"both defaulted", "other defaulted later"} =>
                 /\ other' = ApplyDefaults(constructed, other).instance
                 /\ instance' = instance
           /\ CallerChange => (instance' = instance \/ other' = other)]_vars

\* the caller appended to the tags of instance, and other, defaulted later,
\* got the appended item too
C15_SharedReached ==
    /\ pc = "other defaulted later"
    /\ constructed[2].doc_spec["a"][2]["default"] = PyList(<<PyStr("blog")>>)
    /\ instance[2]["a"] = PyList(<<PyStr("blog"), PyStr("appended")>>)
    /\ other[2]["a"] = instance[2]["a"]

(***************************************************************************)
(* Properties of validators.                                               *)
(***************************************************************************)
\* the validators of a `validates`: a list of them, or a single one
AsSequence(validates) == IF IsList(validates) THEN validates[2] ELSE <<validates>>
\* the calls validate made while at path
CallsAt(path) == SelectSeq(calls, LAMBDA c : c[2] = path)
\* each of fns called once with value while at path, in their order
CalledInOrder(fns, path, value) == [i \in 1 .. Len(fns) |-> Call(fns[i], path, value)]
\* the validators of fns that return a message for value
Failing(fns, value) == {i \in 1 .. Len(fns) : CallValidator(fns[i], value).ret # ""}
\* the message of the last of them
LastMessage(fns, value) ==
    LET last == CHOOSE i \in Failing(fns, value) : \A j \in Failing(fns, value) : j <= i
    IN CallValidator(fns[last], value).ret
\* what the validators fns, applied to value, leave at path
LeavesAt(fns, path, value) ==
    IF Failing(fns, value) = {} THEN path \notin DOMAIN errors
    ELSE path \in DOMAIN errors /\ errors[path] = LastMessage(fns, value)

\* C16: given a mapping, _validate_instance calls every schema-level
\* validator of its schema exactly once with the whole mapping and records
\* each non-empty message at the current prefix path ('' for the root, the
\* field's path for a nested document), a later message replacing an earlier
\* one; given anything else it calls no schema-level validator.
C16_SchemaLevelValidators ==
    pc = "validated" =>
        /\ ~IsDict(instance) => calls = <<>>
        /\ IsDict(instance) =>
              /\ CallsAt("") = CalledInOrder(AsSequence(schema[2].validates), "", instance)
              /\ Completed => LeavesAt(AsSequence(schema[2].validates), "", instance)
              /\ Completed =>
                    \A f \in Declared \cap DOMAIN instance[2] :
                        LET T == DocSpec[f][2]["type"]
                            v == instance[2][f]
                        IN /\ IsSchema(T) =>
                                 IF IsDict(v)
                                 THEN /\ CallsAt(f) = CalledInOrder(AsSequence(T[2].validates), f, v)
                                      /\ LeavesAt(AsSequence(T[2].validates), f, v)
                                 ELSE CallsAt(f) = <<>>
                           /\ (IsArray(T) /\ IsSchema(T[2]) /\ IsList(v)) =>
                                 \A i \in 1 .. Len(v[2]) :
                                     LET p == AppendPath(f, ToString(i - 1)) IN
                                     IF IsDict(v[2][i])
                                     THEN /\ CallsAt(p) = CalledInOrder(
                                                 AsSequence(T[2][2].validates), p, v[2][i])
                                          /\ LeavesAt(AsSequence(T[2][2].validates), p, v[2][i])
                                     ELSE CallsAt(p) = <<>>

\* two schema-level validators both returned a message for the root document
\* and the second one's stands at ''
C16_Witness ==
    /\ CompletedOnDict
    /\ schema[2].validates = PyList(<<PyFunc("a_before_b"), PyFunc("small_a")>>)
    /\ Failing(AsSequence(schema[2].validates), instance) = {1, 2}
    /\ errors[""] = "a is too large"

\* the same below an array, at the item's path
C16_NestedWitness ==
    /\ CompletedOnDict
    /\ DocSpec["a"][2]["type"] = Array(range_schema)
    /\ "a.1" \in DOMAIN errors
    /\ errors["a.1"] = "a is too large"

\* the field's own validators were called on its value
ValidatorsCalled(f) ==
    \E i \in 1 .. Len(calls) :
        /\ calls[i][2] = f
        /\ \E j \in 1 .. Len(AsSequence(DocSpec[f][2]["validates"])) :
              calls[i][1] = AsSequence(DocSpec[f][2]["validates"])[j]
\* the errors the steps of _validate_value before the validators record for
\* the value of field f
PrecedingErrors(f) ==
    ValidateValue(instance[2][f],
                  [key \in (DOMAIN DocSpec[f][2]) \ {"validates"} |-> DocSpec[f][2][key]],
                  f, EmptyMap).errors

\* C17: the validators of a field run only on a clean value: they are called
\* only if the value is not None and the steps before them (type
\* resolution, the embedded-document check, the embedded-array check with
\* its per-item type checks, the type check) recorded no error for it.
C17_ValidatorsOnlyOnCleanValue ==
    CompletedOnDict =>
        \A f \in Declared \cap DOMAIN instance[2] :
            "validates" \in DOMAIN DocSpec[f][2] =>
                ((instance[2][f] = PyNone \/ DOMAIN PrecedingErrors(f) # {})
                    => ~ValidatorsCalled(f))

\* the same, of the errors recorded at the field's own path
C17_OnErrorAtOwnPath ==
    CompletedOnDict =>
        \A f \in Declared \cap DOMAIN instance[2] :
            "validates" \in DOMAIN DocSpec[f][2] =>
                ((instance[2][f] = PyNone \/ f \in DOMAIN PrecedingErrors(f))
                    => ~ValidatorsCalled(f))

\* an item of the list was reported and the list's validator was called
C17_CalledAfterItemError ==
    /\ CompletedOnDict
    /\ DocSpec["a"][2] = [type |-> Array(basestring), validates |-> PyFunc("length")]
    /\ "a" \in DOMAIN instance[2]
    /\ instance[2]["a"] = PyList(<<PyStr("yum"), PyInt(55)>>)
    /\ DOMAIN errors = {"a.1"}
    /\ ValidatorsCalled("a")

\* the calls validate made of the field's own validators
ValidatorCalls(f) ==
    SelectSeq(calls, LAMBDA c :
        /\ c[2] = f
        /\ \E j \in 1 .. Len(AsSequence(DocSpec[f][2]["validates"])) :
              c[1] = AsSequence(DocSpec[f][2]["validates"])[j])

\* C18: the last failing validator wins: every validator of a field's
\* `validates` is called on the value in declared order, a failing one not
\* stopping the later ones, and if any returns a message the one entry at
\* the field's path is the message of the last that did; a single validator
\* that is no list behaves as a list of one.
C18_LastFailingValidatorWins ==
    CompletedOnDict =>
        \A f \in Declared \cap DOMAIN instance[2] :
            LET v == instance[2][f] IN
            ("validates" \in DOMAIN DocSpec[f][2] /\ v # PyNone
                /\ f \notin DOMAIN PrecedingErrors(f))
            => /\ ValidatorCalls(f)
                    = CalledInOrder(AsSequence(DocSpec[f][2]["validates"]), f, v)
               /\ LeavesAt(AsSequence(DocSpec[f][2]["validates"]), f, v)

\* both validators of a list of two returned a message and the second's stands
C18_Witness ==
    /\ CompletedOnDict
    /\ "validates" \in DOMAIN DocSpec["a"][2]
    /\ DocSpec["a"][2]["validates"] = PyList(<<PyFunc("lt"), PyFunc("lte")>>)
    /\ "a" \in DOMAIN instance[2]
    /\ Failing(AsSequence(DocSpec["a"][2]["validates"]), instance[2]["a"]) = {1, 2}
    /\ Len(ValidatorCalls("a")) = 2
    /\ errors["a"] = "value is not less than or equal to 10"

\* a single validator that is no list returned a message
C18_SingleWitness ==
    /\ CompletedOnDict
    /\ "validates" \in DOMAIN DocSpec["a"][2]
    /\ DocSpec["a"][2]["validates"] = PyFunc("lt")
    /\ "a" \in DOMAIN errors
    /\ errors["a"] = "value is not less than 5"

\* the i-th call is a schema-level validator called with the root document
SchemaLevelCall(i) ==
    /\ calls[i][2] = ""
    /\ calls[i][3] = instance
    /\ \E j \in 1 .. Len(AsSequence(schema[2].validates)) :
          calls[i][1] = AsSequence(schema[2].validates)[j]
\* the i-th call was made while validating a declared field
FieldCall(i) == calls[i][2] # ""

\* C19: within _validate_instance the schema-level validators are applied to
\* the whole document only after the validation of its declared fields,
\* nested documents and arrays included, has completed its pass.
C19_SchemaLevelAfterFields ==
    (pc = "validated" /\ IsDict(instance)) =>
        \A i, j \in 1 .. Len(calls) :
            (SchemaLevelCall(i) /\ FieldCall(j)) => j < i

\* what validate does: every schema-level call comes before every field's call
C19_SchemaLevelBeforeFields ==
    (pc = "validated" /\ IsDict(instance)) =>
        \A i, j \in 1 .. Len(calls) :
            (SchemaLevelCall(i) /\ FieldCall(j)) => i < j

\* a schema-level validator was called and a field's validator after it
C19_BeforeReached ==
    /\ pc = "validated"
    /\ IsDict(instance)
    /\ Len(calls) >= 2
    /\ SchemaLevelCall(1)
    /\ FieldCall(Len(calls))

\* the calls validate made of the dynamic type of the array at field f
TypeCalls(f) == SelectSeq(calls, LAMBDA c : c[2] = f /\ c[1] = DocSpec[f][2]["type"][2])
\* the function raises for the item, or returns what is no type, Schema or Array
Unusable(fn, item) ==
    LET out == CallType(fn, item) IN
    out.exc # "none" \/ ~(IsType(out.ret) \/ IsSchema(out.ret) \/ IsArray(out.ret))

\* C20: in an array of a dynamic type the function is called once for each
\* item, with the item, and the item is validated against what it returns;
\* if the function raises, or returns what is no type, Schema or Array,
\* validate ends with a SchemaFormatException, and no other kind of
\* exception leaves validate.
C20_DynamicTypeInArrayGuarded ==
    (pc = "validated" /\ IsDict(instance)) =>
        \A f \in Declared \cap DOMAIN instance[2] :
            LET T == DocSpec[f][2]["type"]
                v == instance[2][f]
            IN (IsArray(T) /\ IsFunction(T[2]) /\ IsList(v)) =>
                  /\ raised.kind \in {"none", "ValidationException", "SchemaFormatException"}
                  /\ (\E i \in 1 .. Len(v[2]) : Unusable(T[2], v[2][i]))
                        => raised.kind = "SchemaFormatException"
                  /\ Completed =>
                        TypeCalls(f) = [i \in 1 .. Len(v[2]) |-> Call(T[2], f, v[2][i])]

\* the errors of the item at index i of the list v at field f, validated
\* against the type R the function returned for it
ItemErrors(f, v, i, R) ==
    LET p == AppendPath(f, ToString(i - 1)) IN
    IF IsSchema(R) THEN ValidateInstance(R, v[2][i], EmptyMap, p).errors
    ELSE IF ~IsInstance(v[2][i], R)
         THEN [q \in {p} |-> "Array item at " \o p \o " is of incorrect type"]
         ELSE EmptyMap

\* the same of the lists for whose items the function returns a type or a Schema
C20_OnUsableTypes ==
    (pc = "validated" /\ IsDict(instance)) =>
        \A f \in Declared \cap DOMAIN instance[2] :
            LET T == DocSpec[f][2]["type"]
                v == instance[2][f]
            IN (IsArray(T) /\ IsFunction(T[2]) /\ IsList(v)
                  /\ \A i \in 1 .. Len(v[2]) :
                        ~Unusable(T[2], v[2][i]) /\ ~IsArray(CallType(T[2], v[2][i]).ret))
               => /\ Completed
                  /\ TypeCalls(f) = [i \in 1 .. Len(v[2]) |-> Call(T[2], f, v[2][i])]
                  /\ (DOMAIN FieldErrors(f)) \ {f}
                        = UNION {DOMAIN ItemErrors(f, v, i, CallType(T[2], v[2][i]).ret) :
                                    i \in 1 .. Len(v[2])}
                  /\ \A i \in 1 .. Len(v[2]) :
                        LET E == ItemErrors(f, v, i, CallType(T[2], v[2][i]).ret) IN
                        \A q \in DOMAIN E : errors[q] = E[q]

\* a list whose items got different types from the function: a document
\* validated against name_schema and a string accepted as it is
C20_UsableReached ==
    /\ CompletedOnDict
    /\ DocSpec["a"][2]["type"] = Array(PyFunc("editors_type"))
    /\ "a" \in DOMAIN instance[2]
    /\ instance[2]["a"] = PyList(<<PyStr("yum"), EmptyDict>>)
    /\ {"a.1.first", "a.1.last"} \subseteq DOMAIN errors
    /\ Len(TypeCalls("a")) = 2

\* the function's own exception left validate
C20_EscapeReached ==
    /\ pc = "validated"
    /\ raised.kind = "AttributeError"
    /\ DocSpec["a"][2]["type"] = Array(PyFunc("get_author_schema"))

(***************************************************************************)
(* Properties of structural mismatches.                                    *)
(***************************************************************************)
\* the message _validate_instance records for what is no dict
NotADocument == "Expected instance of dict to validate against schema."
\* the type field f's value is validated against: the declared one, or what
\* the declared function returns for the value
EffectiveType(f) == ResolveType(DocSpec[f][2]["type"], instance[2][f])
\* the path of the item at index i of field f's list (Python counts from 0)
ItemPath(f, i) == AppendPath(f, ToString(i - 1))
\* what the item at index i of the list at field f adds to the error set when
\* the contained type is the Schema R: one entry if it is no dict, else the
\* errors of the document it is
ElementErrors(f, i, R) ==
    IF IsDict(instance[2][f][2][i])
    THEN ValidateInstance(R, instance[2][f][2][i], EmptyMap, ItemPath(f, i)).errors
    ELSE [q \in {ItemPath(f, i)} |-> NotADocument]
\* some validator of field f's `validates` was called at the field's path
FieldValidatorRan(f) == "validates" \in DOMAIN DocSpec[f][2] /\ ValidatorsCalled(f)

C21_NoListWitness ==
    /\ CompletedOnDict
    /\ DocSpec["a"][2] = [type |-> Array(basestring), validates |-> PyFunc("length")]
    /\ "a" \in DOMAIN instance[2]
    /\ instance[2]["a"] = PyInt(3)
    /\ errors = [q \in {"a"} |-> "a should be an embedded array"]
    /\ calls = <<>>

\* a root instance that is no document
C21_RootWitness ==
    /\ pc = "validated"
    /\ ~IsDict(instance)
    /\ DOMAIN errors = {""}
====
